---- MODULE Spec2Model ----
(***************************************************************************)
(* Model of the thought-leadership content workflow:                       *)
(*   - agents/orchestrator_agent.py  the coordinator (fan-out of the two   *)
(*     generators over a pool of two workers, join, validator, report)     *)
(*   - agents/linkedin_agent.py, agents/x_agent.py  the two generators     *)
(*   - app.py  the web boundary (start_workflow, background run, status)   *)
(*   - scrapers/*.py  the example fetchers                                 *)
(*   - main.py  the command-line run of the same workflow;                 *)
(*     verify_setup.py  test_openai_connection                             *)
(* Five specifications share the variables; each one leaves the variables  *)
(* of the other parts at their initial values:                             *)
(*   SpecWorkflow   one call of OrchestratorAgent.execute_workflow         *)
(*   Spec           the web application and its background runs            *)
(*   SpecFetcher    one call of an example fetcher                         *)
(*   SpecFormatter  format_output and filter_summary_from_output           *)
(*   SpecCli        one run of main.py or of test_openai_connection        *)
(***************************************************************************)
EXTENDS Integers, Sequences, FiniteSets, TLC

VARIABLES
    \* ---- one call of execute_workflow (orchestrator_agent.py)
    wf_args,          \* [context, examples, num_posts] passed to execute_workflow
    wf_pc,            \* position of the calling thread
    futures,          \* the two submitted futures, by agent label
    yield_queue,      \* futures as_completed will yield, in order
    yielded,          \* number of futures the for loop has taken
    linkedin_output,  \* local of _execute_agents_parallel
    x_output,         \* local of _execute_agents_parallel
    validation,       \* the validator remote call (self.run of the orchestrator)
    wf_result,        \* what execute_workflow returned or raised
    llm_calls,        \* remote text-generation calls issued, by callee
    \* ---- the report formatter (format_output, filter_summary_from_output)
    fmt_pc,           \* "report", "formatted", "filtered"
    fmt_report,       \* the final_output dict given to format_output
    fmt_full,         \* format_output(fmt_report)
    fmt_ui,           \* filter_summary_from_output(fmt_full)
    \* ---- one call of an example fetcher (scrapers/*.py)
    fetch_pc,         \* "call", "actor", "dataset", "raw", "examples", "returned", "raised"
    fetch_call,       \* the variant, the configured token and the selectors
    fetch_answer,     \* what the remote scraping service answered
    fetch_result,     \* what the call returned or raised
    fetch_remote,     \* calls issued to the remote scraping service
    fetch_files,      \* files the call has written
    \* ---- the web application (app.py)
    config,           \* config.OPENAI_API_KEY and config.APIFY_API_TOKEN
    workflow_status,  \* the module-level dict workflow_status
    threads,          \* the background threads started, each with its position and locals
    n_requests,       \* start_workflow requests handled so far
    n_gets,           \* GET requests (status, download_pdf) taken up so far
    get_pc,           \* position of the GET request being handled, "idle" when none is
    get_response,     \* the response to the last GET request, or the one being built
    start_request,    \* request.json of the last start_workflow request
    start_response,   \* the response to the last start_workflow request
    remote_calls,     \* remote calls issued by the background threads, by kind
    settled_seen,     \* workflow_status has shown the end of a run since the last
                      \* accepted request (kept for the properties; the code has no such flag)
    files,            \* files written by the background threads
    \* ---- a program run from the command line (main.py, verify_setup.py)
    cli_env,          \* the program run, and the two keys of its environment
    cli_pc,           \* position of the program
    cli,              \* the locals of main(), and what the program ended with
    cli_remote,       \* remote calls the program has issued, by kind
    cli_files         \* files the program has written

wfVars == <<wf_args, wf_pc, futures, yield_queue, yielded, linkedin_output,
            x_output, validation, wf_result, llm_calls>>

fmtVars == <<fmt_pc, fmt_report, fmt_full, fmt_ui>>

fetchVars == <<fetch_pc, fetch_call, fetch_answer, fetch_result, fetch_remote, fetch_files>>

appVars == <<config, workflow_status, threads, n_requests, n_gets, get_pc, get_response,
             start_request, start_response, remote_calls, settled_seen, files>>

cliVars == <<cli_env, cli_pc, cli, cli_remote, cli_files>>

vars == <<wfVars, fmtVars, fetchVars, appVars, cliVars>>

\* the variables each part leaves alone
notWfVars == <<fmtVars, fetchVars, appVars, cliVars>>
notFmtVars == <<wfVars, fetchVars, appVars, cliVars>>
notFetchVars == <<wfVars, fmtVars, appVars, cliVars>>
notAppVars == <<wfVars, fmtVars, fetchVars, cliVars>>
notCliVars == <<wfVars, fmtVars, fetchVars, appVars>>

-----------------------------------------------------------------------------
(* Bounds of the model *)

\* largest num_posts a request asks for
MaxPosts == 2

\* most lines of a validation summary given to the formatter
MaxSummaryLines == 2

\* most records the remote scraping service returns
MaxItems == 2

\* most requests the web application handles (start_workflow, status and
\* download_pdf together)
MaxRequests == 2

-----------------------------------------------------------------------------
(* Strings.  A string is a sequence of lines (what split('\n') gives), a    *)
(* line a sequence of pieces, a piece [s, n]: the unit s repeated n times.  *)
(* A unit is one character, or one of the literal header strings of the    *)
(* report, which `in` looks for.                                           *)

VALIDATION_HEADER == "VALIDATION SUMMARY"
LINKEDIN_HEADER == "LINKEDIN POSTS"
X_HEADER == "X (TWITTER) POSTS"

\* number of characters of a unit (the headers with their emoji and space)
UnitLen(s) ==
    CASE s = VALIDATION_HEADER -> 20
      [] s = LINKEDIN_HEADER -> 16
      [] s = X_HEADER -> 19
      [] OTHER -> 1

Piece(s, n) == [s |-> s, n |-> n]
Lit(s) == <<Piece(s, 1)>>
EmptyLine == <<>>
EmptyString == <<EmptyLine>>

RECURSIVE LineLen(_)
LineLen(line) ==
    IF line = <<>> THEN 0
    ELSE Head(line).n * UnitLen(Head(line).s) + LineLen(Tail(line))

\* len(text): the characters of the lines and the newlines between them
RECURSIVE StrLen(_)
StrLen(text) ==
    IF Len(text) = 1 THEN LineLen(text[1])
    ELSE LineLen(text[1]) + 1 + StrLen(Tail(text))

\* a[:k] of one line; of a repeated header the whole copies before the cut
\* are kept, and the copy cut in the middle is no longer that header
RECURSIVE LineSlice(_, _)
LineSlice(line, k) ==
    IF line = <<>> \/ k <= 0 THEN <<>>
    ELSE LET p == Head(line)
             u == UnitLen(p.s)
             w == p.n * u
         IN  IF w <= k THEN <<p>> \o LineSlice(Tail(line), k - w)
             ELSE IF u = 1 THEN <<Piece(p.s, k)>>
             ELSE (IF k \div u > 0 THEN <<Piece(p.s, k \div u)>> ELSE <<>>)
                    \o (IF k % u > 0 THEN <<Piece("#", k % u)>> ELSE <<>>)

\* text[:k]
RECURSIVE StrSlice(_, _)
StrSlice(text, k) ==
    IF Len(text) = 1 \/ LineLen(text[1]) >= k
    THEN <<LineSlice(text[1], k)>>
    ELSE <<text[1]>> \o StrSlice(Tail(text), k - LineLen(text[1]) - 1)

\* a + b
StrCat(a, b) ==
    SubSeq(a, 1, Len(a) - 1) \o <<a[Len(a)] \o b[1]>> \o Tail(b)

\* h in line
InLine(h, line) == \E i \in 1..Len(line) : line[i].s = h /\ line[i].n >= 1

\* h in text
InStr(h, text) == \E i \in 1..Len(text) : InLine(h, text[i])

-----------------------------------------------------------------------------
(* The agents *)

Agents == {"LinkedIn", "X"}

NoneVal == [tag |-> "None"]

LinkedInAgentName == "LinkedIn Content Creator"
XAgentName == "X Content Creator"
OrchestratorName == "Master Orchestrator"


\* what a remote text-generation call can answer
Plain == <<Lit("a")>>
LLMTexts == {Plain, <<Lit("a"), Lit("b")>>}
LLMErrors == {"APIError", "RateLimitError"}

Ok(v) == [tag |-> "ok", value |-> v]
Exc(e) == [tag |-> "exc", error |-> e]

\* the prompt generate_posts builds (f-string over the three arguments)
GeneratePrompt(a, context, examples, num_posts) ==
    [for |-> a, num_posts |-> num_posts, context |-> context, examples |-> examples]

\* the dict generate_posts returns
PostsDict(platform, num_posts, posts, agent) ==
    [tag |-> "dict", platform |-> platform, num_posts |-> num_posts,
     posts |-> posts, agent |-> agent]

\* a generator that turns a failed remote call into a result holding the error text
LinkedInGeneratePosts_swallowError(num_posts, response) ==
    Ok(PostsDict("LinkedIn", num_posts,
                 IF response.tag = "exc" THEN <<Lit(response.error)>> ELSE response.value,
                 LinkedInAgentName))

\* LinkedInAgent.generate_posts after self.run(prompt): the error of the remote
\* call propagates unchanged, or the response is wrapped
LinkedInGeneratePosts(num_posts, response) ==
    IF response.tag = "exc" THEN response
    ELSE Ok(PostsDict("LinkedIn", num_posts, response.value, LinkedInAgentName))

\* a generator that answers a failed remote call with an empty body
XGeneratePosts_swallowError(num_posts, response) ==
    Ok(PostsDict("X (Twitter)", num_posts,
                 IF response.tag = "exc" THEN EmptyString ELSE response.value,
                 XAgentName))

\* a generator that reports one post more than it was asked for
XGeneratePosts_wrongCount(num_posts, response) ==
    IF response.tag = "exc" THEN response
    ELSE Ok(PostsDict("X (Twitter)", num_posts + 1, response.value, XAgentName))

\* XAgent.generate_posts after self.run(prompt)
XGeneratePosts(num_posts, response) ==
    IF response.tag = "exc" THEN response
    ELSE Ok(PostsDict("X (Twitter)", num_posts, response.value, XAgentName))

\* the task submitted for agent label a
GeneratePosts(a, num_posts, response) ==
    IF a = "LinkedIn" THEN LinkedInGeneratePosts(num_posts, response)
    ELSE XGeneratePosts(num_posts, response)

-----------------------------------------------------------------------------
(* OrchestratorAgent._validate_and_compile *)

\* x['posts'] of a generator output: None is not subscriptable
Subscriptable(out) == out.tag = "dict"

\* a validation prompt built from the context as the metadata shows it
\* (cut at 100 characters) instead of the original
ValidationPrompt_truncatedContext(context, examples, li_out, x_out) ==
    IF li_out.tag = "dict" /\ x_out.tag = "dict"
    THEN Ok([context |-> IF StrLen(context) > 100
                         THEN StrCat(StrSlice(context, 100), <<<<Piece(".", 3)>>>>)
                         ELSE context,
             examples |-> examples,
             linkedin_posts |-> li_out.posts, x_posts |-> x_out.posts])
    ELSE Exc("TypeError")

\* VALIDATION_PROMPT_TEMPLATE.format(...), or the TypeError of subscripting None
ValidationPrompt(context, examples, li_out, x_out) ==
    IF Subscriptable(li_out) /\ Subscriptable(x_out)
    THEN Ok([context |-> context, examples |-> examples,
             linkedin_posts |-> li_out.posts, x_posts |-> x_out.posts])
    ELSE Exc("TypeError")

\* context[:100] + "..." if len(context) > 100 else context
ContextProvided(context) ==
    IF StrLen(context) > 100
    THEN StrCat(StrSlice(context, 100), <<<<Piece(".", 3)>>>>)
    ELSE context

\* the final_output dict
CompileFinalOutput(context, li, x, validation_summary) ==
    [workflow_status |-> "completed",
     metadata |-> [context_provided |-> ContextProvided(context),
                   total_linkedin_posts |-> li.num_posts,
                   total_x_posts |-> x.num_posts,
                   agents_used |-> <<li.agent, x.agent, OrchestratorName>>],
     validation_summary |-> validation_summary,
     linkedin_posts |-> [platform |-> li.platform, count |-> li.num_posts,
                         content |-> li.posts],
     x_posts |-> [platform |-> x.platform, count |-> x.num_posts,
                  content |-> x.posts]]

-----------------------------------------------------------------------------
(* OrchestratorAgent.format_output and app.filter_summary_from_output *)

Rule70 == <<Piece("=", 70)>>
Dash70 == <<Piece("-", 70)>>

\* the element "\n" of the output list: two empty lines once joined
Newline == <<EmptyLine, EmptyLine>>

\* s.upper() of the one status the report has
Upper(s) == IF s = "completed" THEN "COMPLETED" ELSE s

\* str(n) of a count: a piece whose n is the number
Num(n) == <<[s |-> "int", n |-> n]>>

\* ', '.join(names)
RECURSIVE CommaJoin(_)
CommaJoin(names) ==
    IF names = <<>> THEN <<>>
    ELSE IF Len(names) = 1 THEN Lit(names[1])
    ELSE Lit(names[1]) \o Lit(", ") \o CommaJoin(Tail(names))

\* "\n".join(elements), as the lines of the result
RECURSIVE JoinLines(_)
JoinLines(elements) ==
    IF elements = <<>> THEN <<>> ELSE Head(elements) \o JoinLines(Tail(elements))

\* '\n'.join(lines) of a list of single lines
JoinList(lines) == IF lines = <<>> THEN EmptyString ELSE lines

\* lines 209-213: the validation block of the report
ValidationBlock(final_output) ==
    << <<Lit(VALIDATION_HEADER)>>,
       <<Dash70>>,
       final_output.validation_summary,
       Newline >>

\* lines 194-207: the title and the metadata block of the report
MetadataBlock(final_output) ==
    << <<EmptyLine, Rule70>>,
       <<Lit("FINAL OUTPUT - THOUGHT LEADERSHIP CONTENT")>>,
       <<Rule70, EmptyLine>>,
       <<Lit("WORKFLOW METADATA")>>,
       <<Dash70>>,
       <<Lit("Status: ") \o Lit(Upper(final_output.workflow_status))>>,
       StrCat(<<Lit("Context: ")>>, final_output.metadata.context_provided),
       <<Lit("Agents Involved: ") \o CommaJoin(final_output.metadata.agents_used)>>,
       <<Lit("Total LinkedIn Posts: ")
           \o Num(final_output.metadata.total_linkedin_posts)>>,
       <<Lit("Total X Posts: ") \o Num(final_output.metadata.total_x_posts)>>,
       Newline >>

\* lines 215-235: the two platform blocks and the closing lines
PlatformBlocks(final_output) ==
    << <<Lit(LINKEDIN_HEADER)>>,
       <<Dash70>>,
       <<Lit("Platform: ") \o Lit(final_output.linkedin_posts.platform)>>,
       <<Lit("Count: ") \o Num(final_output.linkedin_posts.count)>>,
       Newline,
       final_output.linkedin_posts.content,
       Newline,
       <<Lit(X_HEADER)>>,
       <<Dash70>>,
       <<Lit("Platform: ") \o Lit(final_output.x_posts.platform)>>,
       <<Lit("Count: ") \o Num(final_output.x_posts.count)>>,
       Newline,
       final_output.x_posts.content,
       Newline,
       <<Rule70>>,
       <<Lit("WORKFLOW COMPLETED SUCCESSFULLY")>>,
       <<Rule70>> >>

\* format_output (lines 194-237)
FormatOutput(final_output) ==
    JoinLines(MetadataBlock(final_output)
                \o ValidationBlock(final_output)
                \o PlatformBlocks(final_output))

\* a filter that compares the whole line with the header instead of searching it
IsSummaryHeader_exactLine(line, skip_section) == line = Lit(VALIDATION_HEADER)

\* line 51: the line opens the validation section (and is dropped)
IsSummaryHeader(line, skip_section) == InLine(VALIDATION_HEADER, line)

\* line 56: a platform header ends the skipped section
ResumesAt(line) == InLine(LINKEDIN_HEADER, line) \/ InLine(X_HEADER, line)

\* lines 49-60: the loop over the lines, with the flag skip_section
RECURSIVE FilterLines(_, _)
FilterLines(lines, skip_section) ==
    IF lines = <<>> THEN <<>>
    ELSE LET line == Head(lines)
         IN  IF IsSummaryHeader(line, skip_section)
             THEN FilterLines(Tail(lines), TRUE)
             ELSE LET skip == skip_section /\ ~ResumesAt(line)
                  IN  (IF skip THEN <<>> ELSE <<line>>)
                        \o FilterLines(Tail(lines), skip)

\* filter_summary_from_output (lines 45-62)
FilterSummaryFromOutput(output_text) == JoinList(FilterLines(output_text, FALSE))

-----------------------------------------------------------------------------
(* The example fetchers, scrapers/linkedin_scraper.py and scrapers/x_scraper.py *)

\* values of config.APIFY_API_TOKEN: os.getenv gives None when it is not set
NoToken == "<None>"
APIFY_PLACEHOLDER == "your_apify_api_token_here"
TokenValues == {NoToken, "", APIFY_PLACEHOLDER, "apify_token"}

\* a token check that forgets the placeholder
LinkedInTokenMissing_noPlaceholder(token) == token \in {NoToken, ""}

\* linkedin_scraper.py line 37
LinkedInTokenMissing(token) == token \in {NoToken, ""} \/ token = APIFY_PLACEHOLDER

\* x_scraper.py line 45
XTokenMissing(token) == token \in {NoToken, ""} \/ token = APIFY_PLACEHOLDER

\* a selector argument: None or a list
List(items) == [tag |-> "list", items |-> items]

\* truth value of a selector argument (None and [] are false)
Truthy(sel) == sel.tag = "list" /\ sel.items # <<>>

CONFIG_ERROR == "ValueError: APIFY_API_TOKEN not configured"
INPUT_ERROR == "ValueError: Must provide at least one of: start_urls, search_terms, or twitter_handles"

\* A scraped text: lead whitespace characters, then core characters that
\* begin and end with a non-blank one (beginning with 'RT @' when rt), then
\* trail whitespace characters
Str(lead, rt, core, trail) ==
    [tag |-> "str", lead |-> lead, rt |-> rt, core |-> core, trail |-> trail]
Absent == [tag |-> "absent"]

\* len(text)
PyLen(t) == t.lead + t.core + t.trail
\* len(text.strip())
StrippedLen(t) == t.core
\* text.startswith('RT @')
StartsWithRT(t) == t.lead = 0 /\ t.rt
\* not text, for None or a string
Falsy(t) == t.tag = "None" \/ (t.tag = "str" /\ PyLen(t) = 0)

\* d.get(key, default) on a record field that may be absent
Get(field, default) == IF field.tag = "absent" THEN default ELSE field

LINKEDIN_MIN_LEN == 20
X_MIN_LEN == 10
X_MAX_LEN == 400

NO_VALID_EXAMPLES == [kind |-> "placeholder"]

\* "\n---\n\n".join(examples)
JoinExamples(examples) == [kind |-> "joined", examples |-> examples]

UnknownAuthor == [tag |-> "name", s |-> "Unknown Author"]

\* linkedin_scraper.py line 109: item.get('author', {}).get('name', 'Unknown Author');
\* an author that is no dict has no get
LinkedInAuthor(item) ==
    LET author == Get(item.author, [tag |-> "dict", name |-> Absent, userName |-> Absent])
    IN  IF author.tag = "dict" THEN Ok(Get(author.name, UnknownAuthor))
        ELSE Exc("AttributeError")

\* linkedin_scraper.py line 113: the record is skipped
LinkedInSkips(text) == Falsy(text) \/ StrippedLen(text) < LINKEDIN_MIN_LEN

\* linkedin_scraper.py lines 106-121, the loop from record idx on
RECURSIVE LinkedInExamples(_, _)
LinkedInExamples(items, idx) ==
    IF idx > Len(items) THEN Ok(<<>>)
    ELSE LET item == items[idx]
             text == Get(item.text, Str(0, FALSE, 0, 0))
             author == LinkedInAuthor(item)
             rest == LinkedInExamples(items, idx + 1)
         IN  IF author.tag = "exc" THEN author
             ELSE IF rest.tag = "exc" THEN rest
             ELSE IF LinkedInSkips(text) THEN rest
             ELSE Ok(<<[platform |-> "LinkedIn", idx |-> idx, text |-> text,
                        author |-> author.value]>> \o rest.value)

\* linkedin_scraper._format_as_examples (lines 104-126)
LinkedInFormatAsExamples(items) ==
    LET ex == LinkedInExamples(items, 1)
    IN  IF ex.tag = "exc" THEN ex
        ELSE IF ex.value = <<>> THEN Ok(NO_VALID_EXAMPLES)
        ELSE Ok(JoinExamples(ex.value))

\* x_scraper.py lines 142-148: the author as a dict or as a string
XAuthor(item) ==
    LET author == Get(item.author, [tag |-> "dict", name |-> Absent, userName |-> Absent])
    IN  IF author.tag = "dict"
        THEN Get(author.userName, Get(author.name, UnknownAuthor))
        ELSE IF author.tag = "str" /\ author.s # "" THEN [tag |-> "name", s |-> author.s]
        ELSE UnknownAuthor

\* a filter without the cap on the length of a text
XSkips_noLengthCap(text) ==
    \/ text.tag = "None" \/ (text.tag = "str" /\ PyLen(text) = 0)
    \/ StrippedLen(text) < X_MIN_LEN
    \/ StartsWithRT(text)

\* x_scraper.py lines 153-163: the record is skipped
XSkips(text) ==
    \/ Falsy(text)
    \/ StrippedLen(text) < X_MIN_LEN
    \/ StartsWithRT(text)
    \/ PyLen(text) > X_MAX_LEN

\* x_scraper.py lines 139-170, the loop from record idx on
RECURSIVE XExamples(_, _)
XExamples(items, idx) ==
    IF idx > Len(items) THEN <<>>
    ELSE LET item == items[idx]
             text == Get(item.text, Get(item.full_text, Str(0, FALSE, 0, 0)))
         IN  IF XSkips(text) THEN XExamples(items, idx + 1)
             ELSE <<[platform |-> "X", idx |-> idx, text |-> text,
                     author |-> XAuthor(item)]>> \o XExamples(items, idx + 1)


\* x_scraper._format_as_examples (lines 137-175)
XFormatAsExamples(items) ==
    LET ex == XExamples(items, 1)
    IN  IF ex = <<>> THEN Ok(NO_VALID_EXAMPLES) ELSE Ok(JoinExamples(ex))

\* scrape_linkedin_posts up to the remote call (lines 36-57): the error raised
\* before it, or None when the call is issued
LinkedInPreflight(token, urls) ==
    IF LinkedInTokenMissing(token) THEN Exc(CONFIG_ERROR)
    ELSE IF urls.tag = "None" THEN Exc("TypeError")   \* len(urls), line 43
    ELSE NoneVal

\* scrape_x_posts up to the remote call (lines 44-87)
XPreflight(token, start_urls, search_terms, twitter_handles) ==
    IF XTokenMissing(token) THEN Exc(CONFIG_ERROR)
    ELSE IF ~(Truthy(start_urls) \/ Truthy(search_terms) \/ Truthy(twitter_handles))
         THEN Exc(INPUT_ERROR)
    ELSE NoneVal

\* what the file system does with a file the program writes (with open(..,
\* "w") as f: f.write(..)): it is written; open() fails and there is no file;
\* or open() creates the file and the write fails
FileOutcomes == {"written", "open failed", "write failed"}

\* the outcomes of the raw file: the loop of lines 69-71 / 102-104 writes
\* once per record, so without records nothing is written and no write fails
RawFileOutcomes(items) ==
    IF items = <<>> THEN FileOutcomes \ {"write failed"} ELSE FileOutcomes

\* output_file, the file of the raw records (lines 16 and 20)
RawFile(variant) ==
    IF variant = "LinkedIn" THEN "linkedin_scraped.txt" ELSE "x_scraped.txt"

\* output_file.replace('.txt', '_examples.txt') (lines 80 and 113)
ExamplesFile(variant) ==
    IF variant = "LinkedIn" THEN "linkedin_scraped_examples.txt"
    ELSE "x_scraped_examples.txt"

\* _format_as_examples(items) of the variant (lines 77 and 110)
FormatAsExamples(variant, items) ==
    IF variant = "LinkedIn" THEN LinkedInFormatAsExamples(items)
    ELSE XFormatAsExamples(items)

-----------------------------------------------------------------------------
(* One call of execute_workflow.  The calling thread submits the two        *)
(* generator tasks to a pool of two workers, takes the futures from        *)
(* as_completed, and leaves the with block (shutdown(wait=True)) before    *)
(* the validator is called.                                                *)

\* the contexts: a short one, one of 101 characters, and one of five
\* characters and five validation headers (105 characters), which
\* context[:100] cuts inside the fifth header, keeping four whole
WfContexts ==
    { <<<<Piece("c", 5)>>>>, <<<<Piece("c", 101)>>>>,
      <<<<Piece("c", 5), Piece(VALIDATION_HEADER, 5)>>>> }
WfExamples == {<<Lit("e")>>}

\* a future: its state, the prompt of its remote call, the answer to it, what
\* result() gives, and seq, its place in the order of completion (kept for
\* the properties; the code does not read it)
NoFuture == [state |-> "unsubmitted", prompt |-> NoneVal, response |-> NoneVal,
             outcome |-> NoneVal, seq |-> 0]

FetchIdle ==
    /\ fetch_pc = "idle"
    /\ fetch_call = NoneVal
    /\ fetch_answer = NoneVal
    /\ fetch_result = NoneVal
    /\ fetch_remote = 0
    /\ fetch_files = {}

\* app.py lines 31-37: workflow_status when the module is loaded
InitialStatus ==
    [running |-> FALSE, progress |-> "", output |-> EmptyString,
     full_output |-> EmptyString, error |-> NoneVal]

AppIdle ==
    /\ config = [OPENAI_API_KEY |-> NoToken, APIFY_API_TOKEN |-> NoToken]
    /\ workflow_status = InitialStatus
    /\ threads = <<>>
    /\ n_requests = 0
    /\ n_gets = 0
    /\ get_pc = "idle"
    /\ get_response = NoneVal
    /\ start_request = NoneVal
    /\ start_response = NoneVal
    /\ remote_calls = [scrape |-> 0, llm |-> 0]
    /\ settled_seen = FALSE
    /\ files = {}

CliIdle ==
    /\ cli_env = NoneVal
    /\ cli_pc = "idle"
    /\ cli = NoneVal
    /\ cli_remote = [scrape |-> 0, llm |-> 0]
    /\ cli_files = {}

FmtIdle ==
    /\ fmt_pc = "idle"
    /\ fmt_report = NoneVal
    /\ fmt_full = EmptyString
    /\ fmt_ui = EmptyString

WfIdle ==
    /\ wf_args = NoneVal
    /\ wf_pc = "idle"
    /\ futures = [a \in Agents |-> NoFuture]
    /\ yield_queue = <<>>
    /\ yielded = 0
    /\ linkedin_output = NoneVal
    /\ x_output = NoneVal
    /\ validation = [state |-> "idle", prompt |-> NoneVal, response |-> NoneVal]
    /\ wf_result = NoneVal
    /\ llm_calls = [c \in Agents \cup {"Validator"} |-> 0]

WfInit ==
    /\ wf_args \in [context : WfContexts, examples : WfExamples, num_posts : 1..MaxPosts]
    /\ wf_pc = "submit"
    /\ futures = [a \in Agents |-> NoFuture]
    /\ yield_queue = <<>>
    /\ yielded = 0
    /\ linkedin_output = NoneVal
    /\ x_output = NoneVal
    /\ validation = [state |-> "idle", prompt |-> NoneVal, response |-> NoneVal]
    /\ wf_result = NoneVal
    /\ llm_calls = [c \in Agents \cup {"Validator"} |-> 0]

Finished(a) == futures[a].state = "finished"

\* the orders in which a set of futures can be listed
Orders(S) ==
    {q \in UNION {[1..n -> S] : n \in 0..Cardinality(S)} :
        /\ Len(q) = Cardinality(S)
        /\ \A i, j \in 1..Len(q) : i # j => q[i] # q[j]}

\* executor.submit of the task of agent a: its future is pending, and a
\* worker may take it before the calling thread goes on
Submit(a) ==
    /\ futures[a].state = "unsubmitted"
    /\ futures' = [futures EXCEPT ![a].state = "pending"]
    /\ UNCHANGED <<wf_args, yield_queue, yielded, linkedin_output, x_output,
                   validation, wf_result, llm_calls>>
    /\ UNCHANGED notWfVars

\* lines 98-103: the LinkedIn task is submitted first
SubmitLinkedIn ==
    /\ wf_pc = "submit"
    /\ Submit("LinkedIn")
    /\ wf_pc' = "submit_x"

\* lines 104-109: then the X task, while the LinkedIn worker may already be
\* in its remote call or have finished
SubmitX ==
    /\ wf_pc = "submit_x"
    /\ Submit("X")
    /\ wf_pc' = "as_completed"

\* a worker takes the task of agent a: generate_posts builds the prompt and
\* issues the remote call (agents, lines 38-62)
GenCall(a) ==
    /\ futures[a].state = "pending"
    /\ futures' = [futures EXCEPT
                     ![a].state = "running",
                     ![a].prompt = GeneratePrompt(a, wf_args.context, wf_args.examples,
                                                  wf_args.num_posts)]
    /\ llm_calls' = [llm_calls EXCEPT ![a] = @ + 1]
    /\ UNCHANGED <<wf_args, wf_pc, yield_queue, yielded, linkedin_output, x_output,
                   validation, wf_result>>
    /\ UNCHANGED notWfVars

\* a worker that puts a failed task back into the queue of the pool
Complete_retry(a, response) ==
    /\ futures[a].state = "running"
    /\ futures' = [futures EXCEPT
                     ![a].state = IF response.tag = "exc" THEN "pending" ELSE "finished",
                     ![a].response = response,
                     ![a].outcome = GeneratePosts(a, wf_args.num_posts, response),
                     ![a].seq = Cardinality({b \in Agents : Finished(b)}) + 1]
    /\ yield_queue' = IF wf_pc \in {"loop"} /\ response.tag # "exc"
                      THEN Append(yield_queue, a) ELSE yield_queue
    /\ UNCHANGED <<wf_args, wf_pc, yielded, linkedin_output, x_output, validation,
                   wf_result, llm_calls>>
    /\ UNCHANGED notWfVars

\* the future of agent a completes with what generate_posts gives for the
\* response; a waiter installed by as_completed is told
Complete(a, response) ==
    /\ futures[a].state = "running"
    /\ futures' = [futures EXCEPT
                     ![a].state = "finished",
                     ![a].response = response,
                     ![a].outcome = GeneratePosts(a, wf_args.num_posts, response),
                     ![a].seq = Cardinality({b \in Agents : Finished(b)}) + 1]
    /\ yield_queue' = IF wf_pc \in {"loop"} THEN Append(yield_queue, a) ELSE yield_queue
    /\ UNCHANGED <<wf_args, wf_pc, yielded, linkedin_output, x_output, validation,
                   wf_result, llm_calls>>
    /\ UNCHANGED notWfVars

\* the remote call of agent a returns a text
GenReturn(a) == \E t \in LLMTexts : Complete(a, Ok(t))

\* the remote call of agent a fails
GenRaise(a) == \E e \in LLMErrors : Complete(a, Exc(e))

\* line 113, as_completed(future_to_agent) is entered: the futures already
\* finished are yielded first, in the order of a set; the others as they complete
AsCompletedStart ==
    /\ wf_pc = "as_completed"
    /\ \E q \in Orders({a \in Agents : Finished(a)}) : yield_queue' = q
    /\ wf_pc' = "loop"
    /\ UNCHANGED <<wf_args, futures, yielded, linkedin_output, x_output, validation,
                   wf_result, llm_calls>>
    /\ UNCHANGED notWfVars

\* the except clause of the loop re-raises (lines 124-126)
Reraises(outcome) == outcome.tag = "exc"

\* a loop that fills the slots in the order the futures arrive
LoopResult_byArrival ==
    /\ wf_pc = "loop"
    /\ yield_queue # <<>>
    /\ LET a == Head(yield_queue)
           out == futures[a].outcome
       IN  /\ ~Reraises(out)
           /\ linkedin_output' = IF yielded = 0 THEN out.value ELSE linkedin_output
           /\ x_output' = IF yielded # 0 THEN out.value ELSE x_output
    /\ yield_queue' = Tail(yield_queue)
    /\ yielded' = yielded + 1
    /\ wf_pc' = IF yielded + 1 = Cardinality(Agents) THEN "validate" ELSE "loop"
    /\ UNCHANGED <<wf_args, futures, validation, wf_result, llm_calls>>
    /\ UNCHANGED notWfVars

\* lines 113-122: the loop takes a future whose result() returns
LoopResult ==
    /\ wf_pc = "loop"
    /\ yield_queue # <<>>
    /\ LET a == Head(yield_queue)
           out == futures[a].outcome
       IN  /\ ~Reraises(out)
           /\ linkedin_output' = IF a = "LinkedIn" /\ out.tag = "ok" THEN out.value
                                 ELSE linkedin_output
           /\ x_output' = IF a # "LinkedIn" /\ out.tag = "ok" THEN out.value ELSE x_output
    /\ yield_queue' = Tail(yield_queue)
    /\ yielded' = yielded + 1
    \* after the last future the with block is left (both workers are idle) and
    \* line 128 returns to execute_workflow
    /\ wf_pc' = IF yielded + 1 = Cardinality(Agents) THEN "validate" ELSE "loop"
    /\ UNCHANGED <<wf_args, futures, validation, wf_result, llm_calls>>
    /\ UNCHANGED notWfVars

\* lines 124-126: result() raises, the loop re-raises
LoopRaise ==
    /\ wf_pc = "loop"
    /\ yield_queue # <<>>
    /\ Reraises(futures[Head(yield_queue)].outcome)
    /\ wf_pc' = "shutdown"
    /\ wf_result' = Exc(futures[Head(yield_queue)].outcome.error)
    /\ yield_queue' = Tail(yield_queue)
    /\ yielded' = yielded + 1
    /\ UNCHANGED <<wf_args, futures, linkedin_output, x_output, validation, llm_calls>>
    /\ UNCHANGED notWfVars

\* a with block that is left without joining the workers
ShutdownRaise_noWait ==
    /\ wf_pc = "shutdown"
    /\ wf_pc' = "raised"
    /\ UNCHANGED <<wf_args, futures, yield_queue, yielded, linkedin_output, x_output,
                   validation, wf_result, llm_calls>>
    /\ UNCHANGED notWfVars

\* line 95, the with block is left by the exception: shutdown(wait=True) joins
\* the workers, then the exception leaves execute_workflow
ShutdownRaise ==
    /\ wf_pc = "shutdown"
    /\ \A a \in Agents : Finished(a)
    /\ wf_pc' = "raised"
    /\ UNCHANGED <<wf_args, futures, yield_queue, yielded, linkedin_output, x_output,
                   validation, wf_result, llm_calls>>
    /\ UNCHANGED notWfVars

\* lines 144-152: the validation prompt is built and self.run is called
ValidatorCall ==
    /\ wf_pc = "validate"
    /\ LET p == ValidationPrompt(wf_args.context, wf_args.examples,
                                 linkedin_output, x_output)
       IN  IF p.tag = "exc"
           THEN /\ wf_pc' = "raised"
                /\ wf_result' = p
                /\ UNCHANGED <<validation, llm_calls>>
           ELSE /\ wf_pc' = "validating"
                /\ validation' = [validation EXCEPT !.state = "running", !.prompt = p.value]
                /\ llm_calls' = [llm_calls EXCEPT !["Validator"] = @ + 1]
                /\ UNCHANGED wf_result
    /\ UNCHANGED <<wf_args, futures, yield_queue, yielded, linkedin_output, x_output>>
    /\ UNCHANGED notWfVars

\* lines 152-185 and 74-77: the validator answers, the report is compiled
\* and returned
ValidatorReturn ==
    /\ wf_pc = "validating"
    /\ \E t \in LLMTexts :
         /\ wf_result' = Ok(CompileFinalOutput(wf_args.context, linkedin_output,
                                               x_output, t))
         /\ validation' = [validation EXCEPT !.state = "ok", !.response = Ok(t)]
    /\ wf_pc' = "returned"
    /\ UNCHANGED <<wf_args, futures, yield_queue, yielded, linkedin_output, x_output,
                   llm_calls>>
    /\ UNCHANGED notWfVars

\* line 152: the validator call fails, the error leaves execute_workflow
ValidatorRaise ==
    /\ wf_pc = "validating"
    /\ \E e \in LLMErrors :
         /\ wf_result' = Exc(e)
         /\ validation' = [validation EXCEPT !.state = "failed", !.response = Exc(e)]
    /\ wf_pc' = "raised"
    /\ UNCHANGED <<wf_args, futures, yield_queue, yielded, linkedin_output, x_output,
                   llm_calls>>
    /\ UNCHANGED notWfVars

WfNext ==
    \/ SubmitLinkedIn
    \/ SubmitX
    \/ \E a \in Agents : GenCall(a)
    \/ \E a \in Agents : GenReturn(a)
    \/ \E a \in Agents : GenRaise(a)
    \/ AsCompletedStart
    \/ LoopResult
    \/ LoopRaise
    \/ ShutdownRaise
    \/ ValidatorCall
    \/ ValidatorReturn
    \/ ValidatorRaise

InitWorkflow == WfInit /\ FmtIdle /\ FetchIdle /\ AppIdle /\ CliIdle

SpecWorkflow == InitWorkflow /\ [][WfNext]_vars

\* A generator call has returned successfully: its future is finished and the
\* remote call answered
ReturnedOk(a) == Finished(a) /\ futures[a].response.tag = "ok"

\* A generator call has raised
Raised(a) == Finished(a) /\ futures[a].response.tag = "exc"

\* C1: whenever the validator call has been issued, both generator calls have
\* returned successfully (none is running, none has failed)
C1_ValidatorAfterBothGenerators ==
    (validation.state # "idle" \/ llm_calls["Validator"] > 0)
        => \A a \in Agents : ReturnedOk(a)

\* C1 witness: the validator call is in flight
C1_Witness ==
    /\ validation.state = "running"
    /\ llm_calls["Validator"] = 1
    /\ \A a \in Agents : ReturnedOk(a)

\* C2: once a generator call has raised, the validator is never called, no
\* report is returned, and when execute_workflow ends it ends by raising
C2_NoPartialReport ==
    (\E a \in Agents : Raised(a))
        => /\ llm_calls["Validator"] = 0
           /\ validation.state = "idle"
           /\ wf_pc # "returned"
           /\ wf_result.tag # "ok"
           /\ wf_pc \notin {"validate", "validating"}

\* C2 witness: execute_workflow has raised with one generator failed and the
\* other one successful
C2_Witness ==
    /\ wf_pc = "raised"
    /\ \E a, b \in Agents : Raised(a) /\ ReturnedOk(b)

\* C3: a returned report holds one LinkedIn result and one X result, each
\* with the requested count, and the metadata totals are that count too
C3_CountsMatchRequest ==
    wf_pc = "returned" =>
        LET r == wf_result.value
        IN  /\ r.linkedin_posts.platform = "LinkedIn"
            /\ r.x_posts.platform = "X (Twitter)"
            /\ r.linkedin_posts.count = wf_args.num_posts
            /\ r.x_posts.count = wf_args.num_posts
            /\ r.metadata.total_linkedin_posts = wf_args.num_posts
            /\ r.metadata.total_x_posts = wf_args.num_posts

\* C3 witness: a report was returned for a request of more than one post
C3_Witness ==
    /\ wf_pc = "returned"
    /\ wf_result.tag = "ok"
    /\ wf_args.num_posts = MaxPosts
    /\ wf_result.value.x_posts.count = MaxPosts

\* the task of agent a has been submitted and has not completed
Unfinished(a) == futures[a].state \in {"pending", "running"}

\* the generator that completed first
FirstCompleted == CHOOSE a \in Agents : futures[a].seq = 1

\* C15 (as claimed): an error the loop has raised is never held back while the
\* sibling generator is still at work; it reaches the caller at once
C15_ErrorPropagatesImmediately ==
    ~(wf_pc = "shutdown" /\ \E a \in Agents : Unfinished(a))

\* C16: no remote text-generation call is issued twice, a finished call is
\* never taken up again, and a returned report has the status 'completed'
\* and the validator's text, whatever that text is
C16_NoRetry ==
    /\ [](/\ \A c \in DOMAIN llm_calls : llm_calls[c] <= 1
          /\ (wf_pc = "returned") =>
                /\ wf_result.value.workflow_status = "completed"
                /\ wf_result.value.validation_summary \in LLMTexts
                /\ \A c \in DOMAIN llm_calls : llm_calls[c] = 1)
    /\ [][/\ \A a \in Agents : (Finished(a) => futures'[a] = futures[a])
           /\ (validation.state \in {"ok", "failed"}) =>
                 (validation' = validation /\ llm_calls' = llm_calls)]_vars

\* C16 witness: the validator call failed after both generators answered, the
\* call has raised and every remote call was issued once
C16_Witness ==
    /\ wf_pc = "raised"
    /\ validation.state = "failed"
    /\ \A c \in DOMAIN llm_calls : llm_calls[c] = 1

\* C18: when a generator has failed and execute_workflow has raised, both
\* tasks have run to completion (each issued its call, none was cancelled),
\* and the result is the error: the sibling's posts are in no slot of a report
C18_JoinBeforeErrorSurfaces ==
    /\ \A a \in Agents :
         futures[a].state \in {"unsubmitted", "pending", "running", "finished"}
    /\ (wf_pc = "raised" /\ \E a \in Agents : Raised(a))
         => /\ \A a \in Agents : Finished(a) /\ llm_calls[a] = 1
            /\ wf_result.tag = "exc"
            /\ \E a \in Agents : Raised(a) /\ wf_result = futures[a].outcome

\* C18 witness: the call has raised on the generator that failed first; the
\* sibling completed after it, successfully, and the loop never took its result
C18_Witness ==
    /\ wf_pc = "raised"
    /\ yielded = 1
    /\ \E a, b \in Agents :
         /\ Raised(a) /\ futures[a].seq = 1
         /\ ReturnedOk(b) /\ futures[b].seq = 2
    /\ linkedin_output = NoneVal
    /\ x_output = NoneVal

\* C19 (as claimed): when both generators have failed, the error that
\* execute_workflow raises is the one of the generator that failed first
C19_FirstFailureReported ==
    (wf_pc \in {"shutdown", "raised"} /\ \A a \in Agents : Raised(a))
        => wf_result = futures[FirstCompleted].outcome

\* C20: each slot holds the result of its own generator, while the loop runs
\* and in the returned report, and agents_used is the fixed sequence
C20_SlotsNeverSwapped ==
    /\ (linkedin_output # NoneVal
          => /\ ReturnedOk("LinkedIn")
             /\ linkedin_output = futures["LinkedIn"].outcome.value)
    /\ (x_output # NoneVal
          => /\ ReturnedOk("X")
             /\ x_output = futures["X"].outcome.value)
    /\ (wf_pc = "returned") =>
         LET r == wf_result.value
         IN  /\ r.linkedin_posts.content = futures["LinkedIn"].response.value
             /\ r.linkedin_posts.platform = "LinkedIn"
             /\ r.x_posts.content = futures["X"].response.value
             /\ r.x_posts.platform = "X (Twitter)"
             /\ r.metadata.agents_used =
                    <<LinkedInAgentName, XAgentName, OrchestratorName>>

\* C20 witness: a report was returned after the X generator completed first,
\* with a body that differs from the LinkedIn one
C20_Witness ==
    /\ wf_pc = "returned"
    /\ futures["X"].seq = 1
    /\ futures["LinkedIn"].seq = 2
    /\ futures["X"].response.value # futures["LinkedIn"].response.value
    /\ wf_result.value.x_posts.content = futures["X"].response.value

\* C21: each generator call is given the context, the examples and the count
\* execute_workflow was called with; the validator call is given that same
\* context and examples and the two bodies as the generators returned them; the
\* returned report holds the two bodies and the validator's text unchanged
C21_ArgumentsPassedUnchanged ==
    /\ \A a \in Agents :
         (futures[a].prompt # NoneVal)
            => futures[a].prompt = [for |-> a, num_posts |-> wf_args.num_posts,
                                    context |-> wf_args.context,
                                    examples |-> wf_args.examples]
    /\ (validation.prompt # NoneVal)
         => validation.prompt = [context |-> wf_args.context,
                                 examples |-> wf_args.examples,
                                 linkedin_posts |-> futures["LinkedIn"].response.value,
                                 x_posts |-> futures["X"].response.value]
    /\ (wf_pc = "returned")
         => /\ wf_result.value.linkedin_posts.content = futures["LinkedIn"].response.value
            /\ wf_result.value.x_posts.content = futures["X"].response.value
            /\ wf_result.value.validation_summary = validation.response.value

\* C21 witness: a report was returned for a context of more than 100
\* characters, with two different bodies and a validator text of two lines
C21_Witness ==
    /\ wf_pc = "returned"
    /\ StrLen(wf_args.context) > 100
    /\ validation.prompt.context = wf_args.context
    /\ futures["LinkedIn"].response.value # futures["X"].response.value
    /\ Len(validation.response.value) = 2
    /\ wf_result.value.validation_summary = validation.response.value

-----------------------------------------------------------------------------
(* The formatter on its own: a report is drawn, format_output renders it,   *)
(* filter_summary_from_output strips the rendering for the UI.             *)

\* the lines a text of the report is made of
ReportLines ==
    { EmptyLine, Lit("a"),
      Lit(VALIDATION_HEADER), Lit("a") \o Lit(VALIDATION_HEADER),
      Lit(LINKEDIN_HEADER), Lit(X_HEADER) }

TextsUpTo(n) == UNION {[1..k -> ReportLines] : k \in 1..n}

FmtSummaries == TextsUpTo(MaxSummaryLines)
FmtBodies == TextsUpTo(1)

FmtReport(summary, li_body, x_body, n) ==
    CompileFinalOutput(Plain,
                       PostsDict("LinkedIn", n, li_body, LinkedInAgentName),
                       PostsDict("X (Twitter)", n, x_body, XAgentName),
                       summary)

FmtInit ==
    /\ fmt_pc = "report"
    /\ \E s \in FmtSummaries, l \in FmtBodies, x \in FmtBodies :
         fmt_report = FmtReport(s, l, x, 1)
    /\ fmt_full = EmptyString
    /\ fmt_ui = EmptyString

\* orchestrator.format_output(final_output)
Format ==
    /\ fmt_pc = "report"
    /\ fmt_full' = FormatOutput(fmt_report)
    /\ fmt_pc' = "formatted"
    /\ UNCHANGED <<fmt_report, fmt_ui>>
    /\ UNCHANGED notFmtVars

\* filter_summary_from_output(formatted_output)
Filter ==
    /\ fmt_pc = "formatted"
    /\ fmt_ui' = FilterSummaryFromOutput(fmt_full)
    /\ fmt_pc' = "filtered"
    /\ UNCHANGED <<fmt_report, fmt_full>>
    /\ UNCHANGED notFmtVars

FmtNext == Format \/ Filter

InitFormatter == FmtInit /\ WfIdle /\ FetchIdle /\ AppIdle /\ CliIdle

SpecFormatter == InitFormatter /\ [][FmtNext]_vars

\* C9: for a report with a non-empty validation summary, the full rendering
\* contains the validation header and the UI rendering does not
C9_HeaderInFullNotInUi ==
    /\ (fmt_pc \in {"formatted", "filtered"}
          /\ fmt_report.validation_summary # EmptyString)
         => InStr(VALIDATION_HEADER, fmt_full)
    /\ (fmt_pc = "filtered" /\ fmt_report.validation_summary # EmptyString)
         => ~InStr(VALIDATION_HEADER, fmt_ui)

\* C9 witness: a filtered rendering of a report whose summary and whose
\* LinkedIn body both contain the validation header
C9_Witness ==
    /\ fmt_pc = "filtered"
    /\ InStr(VALIDATION_HEADER, fmt_report.validation_summary)
    /\ InStr(VALIDATION_HEADER, fmt_report.linkedin_posts.content)
    /\ InStr(VALIDATION_HEADER, fmt_full)

\* the lines of a text, as a set
LinesOf(text) == {text[k] : k \in 1..Len(text)}

\* the rendering of the report outside its validation block: the title and
\* metadata lines and the two platform blocks
OutsideValidation(final_output) ==
    JoinLines(MetadataBlock(final_output) \o PlatformBlocks(final_output))

\* the lines of the validation summary that the report has nowhere else
SummaryOnlyLines(final_output) ==
    LinesOf(final_output.validation_summary) \ LinesOf(OutsideValidation(final_output))

\* a is b with some lines left out (the order kept)
RECURSIVE IsSubsequence(_, _)
IsSubsequence(a, b) ==
    IF a = <<>> THEN TRUE
    ELSE IF b = <<>> THEN FALSE
    ELSE IF Head(a) = Head(b) THEN IsSubsequence(Tail(a), Tail(b))
    ELSE IsSubsequence(a, Tail(b))

\* the text has a line that contains one of the two platform headers
HasPlatformHeader(text) == \E k \in 1..Len(text) : ResumesAt(text[k])

\* the text has a line that contains the validation header
HasValidationHeader(text) ==
    \E k \in 1..Len(text) : IsSummaryHeader(text[k], FALSE)

\* C27 (as claimed): the UI rendering has no line of the validation summary
\* (of those the report has nowhere else), whatever the summary contains
C27_NoSummaryLineInUi ==
    (fmt_pc = "filtered")
        => LinesOf(fmt_ui) \cap SummaryOnlyLines(fmt_report) = {}

\* C27 for a summary none of whose lines contains a platform header
C27_NoSummaryLineInUi_PlainSummary ==
    (fmt_pc = "filtered" /\ ~HasPlatformHeader(fmt_report.validation_summary))
        => LinesOf(fmt_ui) \cap SummaryOnlyLines(fmt_report) = {}

\* a filtered rendering of a report whose summary has a line of its own and
\* no platform header
C27_PlainSummaryFiltered ==
    /\ fmt_pc = "filtered"
    /\ ~HasPlatformHeader(fmt_report.validation_summary)
    /\ Lit("a") \in SummaryOnlyLines(fmt_report)
    /\ Lit("a") \notin LinesOf(fmt_ui)

\* C28 (as claimed): the UI rendering keeps, in their order, every line of
\* the report outside the validation block, whatever the bodies contain
C28_UiKeepsTheRest ==
    (fmt_pc = "filtered")
        => IsSubsequence(OutsideValidation(fmt_report), fmt_ui)

\* C28 for bodies none of whose lines contains the validation header
C28_UiKeepsTheRest_PlainBodies ==
    (fmt_pc = "filtered"
       /\ ~HasValidationHeader(fmt_report.linkedin_posts.content)
       /\ ~HasValidationHeader(fmt_report.x_posts.content))
        => IsSubsequence(OutsideValidation(fmt_report), fmt_ui)

\* a filtered rendering of a report whose bodies differ and have no
\* validation header, with a summary of two lines: the UI rendering is the
\* report outside the validation block
C28_PlainBodiesFiltered ==
    /\ fmt_pc = "filtered"
    /\ fmt_report.linkedin_posts.content = <<Lit("a")>>
    /\ fmt_report.x_posts.content = <<Lit(LINKEDIN_HEADER)>>
    /\ Len(fmt_report.validation_summary) = 2
    /\ ~HasPlatformHeader(fmt_report.validation_summary)
    /\ fmt_ui = OutsideValidation(fmt_report)

-----------------------------------------------------------------------------
(* One call of an example fetcher: scrape_linkedin_posts(urls) or           *)
(* scrape_x_posts(start_urls, search_terms, twitter_handles), with          *)
(* format_as_examples left at True.                                        *)

AuthorDict(name, userName) == [tag |-> "dict", name |-> name, userName |-> userName]
Name(s) == [tag |-> "name", s |-> s]
Item(text, full_text, author) == [text |-> text, full_text |-> full_text, author |-> author]

\* the records the remote service answers with: texts around the thresholds
\* of both variants, missing fields, and the shapes an author comes in
ItemSet ==
    { Item(Absent, Absent, Absent),
      Item(NoneVal, Absent, AuthorDict(Name("ann"), Absent)),
      Item(Str(2, FALSE, 0, 1), Absent, AuthorDict(Absent, Name("bob"))),
      Item(Str(3, FALSE, 9, 0), Absent, [tag |-> "str", s |-> "cy"]),
      Item(Str(0, FALSE, 10, 0), Absent, NoneVal),
      Item(Str(1, FALSE, 19, 1), Absent, AuthorDict(Name("dan"), Name("dd"))),
      Item(Str(0, FALSE, 20, 0), Absent, AuthorDict(Name("eve"), Absent)),
      Item(Str(0, TRUE, 20, 0), Absent, AuthorDict(Absent, Absent)),
      Item(Str(1, TRUE, 20, 0), Absent, [tag |-> "str", s |-> ""]),
      Item(Str(0, FALSE, 400, 0), Absent, Absent),
      Item(Str(0, FALSE, 399, 2), Absent, AuthorDict(Name("fay"), Absent)),
      Item(Absent, Str(0, FALSE, 20, 0), AuthorDict(Name("gus"), Absent)) }

RemoteItems == UNION {[1..n -> ItemSet] : n \in 0..MaxItems}

SelectorValues == {NoneVal, List(<<>>), List(<<"u">>)}

FetchCalls ==
    [variant : {"LinkedIn"}, token : TokenValues, urls : SelectorValues,
     start_urls : {NoneVal}, search_terms : {NoneVal}, twitter_handles : {NoneVal}]
    \cup
    [variant : {"X"}, token : TokenValues, urls : {NoneVal},
     start_urls : SelectorValues, search_terms : SelectorValues,
     twitter_handles : SelectorValues]

FetchInit ==
    /\ fetch_pc = "call"
    /\ fetch_call \in FetchCalls
    /\ fetch_answer = NoneVal
    /\ fetch_result = NoneVal
    /\ fetch_remote = 0
    /\ fetch_files = {}

\* the call runs up to the run of the actor, or raises before it
FetchBegin(pre) ==
    /\ IF pre.tag = "exc"
       THEN /\ fetch_pc' = "raised"
            /\ fetch_result' = pre
            /\ UNCHANGED fetch_remote
       ELSE /\ fetch_pc' = "actor"
            /\ fetch_remote' = fetch_remote + 1
            /\ UNCHANGED fetch_result
    /\ UNCHANGED <<fetch_call, fetch_answer, fetch_files>>
    /\ UNCHANGED notFetchVars

\* scrape_linkedin_posts, lines 36-57
ScrapeLinkedInBegin ==
    /\ fetch_pc = "call"
    /\ fetch_call.variant = "LinkedIn"
    /\ FetchBegin(LinkedInPreflight(fetch_call.token, fetch_call.urls))

\* scrape_x_posts, lines 44-87
ScrapeXBegin ==
    /\ fetch_pc = "call"
    /\ fetch_call.variant = "X"
    /\ FetchBegin(XPreflight(fetch_call.token, fetch_call.start_urls,
                             fetch_call.search_terms, fetch_call.twitter_handles))

\* the call ends by raising e (the except clause prints and re-raises)
FetchRaise(e) ==
    /\ fetch_pc' = "raised"
    /\ fetch_result' = e
    /\ UNCHANGED <<fetch_call, fetch_remote, fetch_files>>
    /\ UNCHANGED notFetchVars

\* client.actor(..).call returns the run (line 57 / 87); the read of its
\* dataset, client.dataset(..).iterate_items(), is issued (line 61 / 94)
ActorReturns ==
    /\ fetch_pc = "actor"
    /\ fetch_pc' = "dataset"
    /\ fetch_remote' = fetch_remote + 1
    /\ UNCHANGED <<fetch_call, fetch_answer, fetch_result, fetch_files>>
    /\ UNCHANGED notFetchVars

\* the run of the actor fails
ActorFails ==
    /\ fetch_pc = "actor"
    /\ UNCHANGED fetch_answer
    /\ FetchRaise(Exc("ApifyError"))

\* the read of the dataset gives the records (lines 60-62 / 93-95)
DatasetReturns ==
    /\ fetch_pc = "dataset"
    /\ \E items \in RemoteItems : fetch_answer' = Ok(items)
    /\ fetch_pc' = "raw"
    /\ UNCHANGED <<fetch_call, fetch_result, fetch_remote, fetch_files>>
    /\ UNCHANGED notFetchVars

\* the read of the dataset fails
DatasetFails ==
    /\ fetch_pc = "dataset"
    /\ fetch_answer' = Exc("ApifyError")
    /\ FetchRaise(Exc("ApifyError"))

\* the raw records are written to output_file (lines 67-71 / 100-104); when
\* open or write fails the call ends raised, with the file on disk when it
\* was open that created it
WriteRaw ==
    /\ fetch_pc = "raw"
    /\ \E outcome \in RawFileOutcomes(fetch_answer.value) :
         /\ fetch_files' = IF outcome = "open failed" THEN fetch_files
                           ELSE fetch_files \cup {RawFile(fetch_call.variant)}
         /\ IF outcome = "written"
            THEN /\ fetch_pc' = "examples"
                 /\ UNCHANGED fetch_result
            ELSE /\ fetch_pc' = "raised"
                 /\ fetch_result' = Exc("OSError")
    /\ UNCHANGED <<fetch_call, fetch_answer, fetch_remote>>
    /\ UNCHANGED notFetchVars

\* the records are formatted and the examples file is written; the call
\* returns the examples (lines 76-85 / 109-118), or raises when the
\* formatting does, or when open or write of the examples file fails
WriteExamples ==
    /\ fetch_pc = "examples"
    /\ LET formatted == FormatAsExamples(fetch_call.variant, fetch_answer.value)
       IN  IF formatted.tag = "exc"
           THEN /\ fetch_result' = formatted
                /\ fetch_pc' = "raised"
                /\ UNCHANGED fetch_files
           ELSE \E outcome \in FileOutcomes :
                  /\ fetch_files' = IF outcome = "open failed" THEN fetch_files
                                    ELSE fetch_files \cup {ExamplesFile(fetch_call.variant)}
                  /\ IF outcome = "written"
                     THEN /\ fetch_pc' = "returned"
                          /\ fetch_result' = formatted
                     ELSE /\ fetch_pc' = "raised"
                          /\ fetch_result' = Exc("OSError")
    /\ UNCHANGED <<fetch_call, fetch_answer, fetch_remote>>
    /\ UNCHANGED notFetchVars

FetchNext ==
    \/ ScrapeLinkedInBegin
    \/ ScrapeXBegin
    \/ ActorReturns
    \/ ActorFails
    \/ DatasetReturns
    \/ DatasetFails
    \/ WriteRaw
    \/ WriteExamples

InitFetcher == FetchInit /\ WfIdle /\ FmtIdle /\ AppIdle /\ CliIdle

SpecFetcher == InitFetcher /\ [][FetchNext]_vars

\* every selector list of the call is empty or absent
NoSelectors ==
    IF fetch_call.variant = "LinkedIn" THEN ~Truthy(fetch_call.urls)
    ELSE /\ ~Truthy(fetch_call.start_urls)
         /\ ~Truthy(fetch_call.search_terms)
         /\ ~Truthy(fetch_call.twitter_handles)

\* the scraping credential is absent or the placeholder
NoCredential == fetch_call.token \in {NoToken, "", APIFY_PLACEHOLDER}

\* C6 (as claimed): with a credential, a call without any selector fails
\* with an input error and issues no remote call, for both variants.  The
\* TypeError of len(None) is counted as an input error here
C6_NoSelectorsNoRemoteCall ==
    (fetch_pc # "call" /\ NoSelectors /\ ~NoCredential)
        => /\ fetch_remote = 0
           /\ fetch_pc = "raised"
           /\ fetch_result \in {Exc(INPUT_ERROR), Exc("TypeError")}

\* C7: without a credential the fetch fails with the configuration error and
\* issues no remote call, whatever the selectors are
C7_NoCredentialNoRemoteCall ==
    (fetch_pc # "call" /\ NoCredential)
        => /\ fetch_remote = 0
           /\ fetch_pc = "raised"
           /\ fetch_result = Exc(CONFIG_ERROR)

\* C7 witness: a LinkedIn fetch with URLs that failed on the placeholder token
C7_Witness ==
    /\ fetch_pc = "raised"
    /\ fetch_call.variant = "LinkedIn"
    /\ fetch_call.token = APIFY_PLACEHOLDER
    /\ Truthy(fetch_call.urls)
    /\ fetch_result = Exc(CONFIG_ERROR)

\* the text a variant reads from a record, None or '' when there is none
RecordText(variant, item) ==
    IF variant = "LinkedIn" \/ item.text.tag # "absent" THEN item.text
    ELSE item.full_text

\* the text of the record is shorter than min (a record without text has none)
ShortText(variant, item, min) ==
    LET t == RecordText(variant, item)
    IN  t.tag # "str" \/ StrippedLen(t) < min

MinLen(variant) == IF variant = "LinkedIn" THEN LINKEDIN_MIN_LEN ELSE X_MIN_LEN

\* the remote service answered with records whose texts are all too short
AllTextsShort ==
    /\ fetch_answer.tag = "ok"
    /\ \A i \in 1..Len(fetch_answer.value) :
         ShortText(fetch_call.variant, fetch_answer.value[i], MinLen(fetch_call.variant))

\* the file system refused one of the two files of the fetch
FileRefused == fetch_pc = "raised" /\ fetch_result = Exc("OSError")

\* C8 (as claimed): when every text is shorter than the variant's threshold the
\* fetch returns the fixed placeholder text: it does not fail and the result
\* is not the empty string.  A fetch whose file the file system refused is
\* left aside: the claim is about what the records are turned into
C8_PlaceholderWhenAllShort ==
    (fetch_pc \in {"returned", "raised"} /\ AllTextsShort /\ ~FileRefused)
        => /\ fetch_pc = "returned"
           /\ fetch_result = Ok(NO_VALID_EXAMPLES)

\* C8 for the X variant alone
C8_PlaceholderWhenAllShort_X ==
    fetch_call.variant = "X" => C8_PlaceholderWhenAllShort

\* the filter of a variant as the documentation states it: a text of at least
\* 20 characters once stripped (LinkedIn); of at least 10 characters once
\* stripped, not beginning with 'RT @' and of at most 400 characters (X)
PassesFilter(variant, item) ==
    LET t == RecordText(variant, item)
    IN  /\ t.tag = "str"
        /\ IF variant = "LinkedIn" THEN t.core >= 20
           ELSE /\ t.core >= 10
                /\ ~(t.lead = 0 /\ t.rt)
                /\ t.lead + t.core + t.trail <= 400

\* the examples of a returned fetch, none when it is the placeholder text
ExamplesOf(result) ==
    IF result.value = NO_VALID_EXAMPLES THEN <<>> ELSE result.value.examples

\* C22: the output of a fetch that returned holds an example for a record
\* exactly when the record passes the filter of the variant; the example
\* quotes the text of its record, and the examples are in the order of the
\* records
C22_ExamplesAreTheFilteredRecords ==
    (fetch_pc = "returned") =>
        LET items == fetch_answer.value
            ex == ExamplesOf(fetch_result)
        IN  /\ \A i \in 1..Len(items) :
                 PassesFilter(fetch_call.variant, items[i])
                    <=> \E k \in 1..Len(ex) : ex[k].idx = i
            /\ \A k \in 1..Len(ex) :
                 /\ ex[k].idx \in 1..Len(items)
                 /\ ex[k].text = RecordText(fetch_call.variant, items[ex[k].idx])
            /\ \A k1, k2 \in 1..Len(ex) : (k1 < k2) => (ex[k1].idx < ex[k2].idx)

\* C22 witness: an X fetch was answered with a text of 401 characters and then
\* a text of 400 characters; the output holds one example, that of record 2
C22_Witness ==
    /\ fetch_pc = "returned"
    /\ fetch_call.variant = "X"
    /\ Len(fetch_answer.value) = 2
    /\ fetch_answer.value[1].text = Str(0, FALSE, 399, 2)
    /\ fetch_answer.value[2].text = Str(0, FALSE, 400, 0)
    /\ Len(ExamplesOf(fetch_result)) = 1
    /\ ExamplesOf(fetch_result)[1].idx = 2

\* C22 witness for the LinkedIn variant: two records pass and are quoted in
\* the order of the records, with a record in front that is too short
C22_Witness_LinkedIn ==
    /\ fetch_pc = "returned"
    /\ fetch_call.variant = "LinkedIn"
    /\ Len(fetch_answer.value) = 2
    /\ Len(ExamplesOf(fetch_result)) = 2
    /\ ExamplesOf(fetch_result)[1].idx = 1
    /\ ExamplesOf(fetch_result)[2].idx = 2
    /\ ExamplesOf(fetch_result)[1].text # ExamplesOf(fetch_result)[2].text

-----------------------------------------------------------------------------
(* The web application, app.py.  start_workflow is handled by the server;   *)
(* every accepted request starts a background thread that executes          *)
(* run_workflow_async.  The threads and the handler share workflow_status;  *)
(* a thread takes one step per access to it.                               *)

\* a JSON string value, with its text
Text(v) == [tag |-> "text", v |-> v]
\* a JSON number
Number(n) == [tag |-> "int", v |-> n]

\* not v, for the values a JSON field holds
PyNot(v) ==
    \/ v.tag = "None"
    \/ (v.tag = "text" /\ v.v = EmptyString)
    \/ (v.tag = "int" /\ v.v = 0)
    \/ (v.tag = "list" /\ v.items = <<>>)

Reverse(seq) == [i \in 1..Len(seq) |-> seq[Len(seq) + 1 - i]]

\* line.lstrip() of a single line: the leading blanks go
RECURSIVE LStripLine(_)
LStripLine(line) ==
    IF line = <<>> THEN <<>>
    ELSE IF Head(line).s = " " THEN LStripLine(Tail(line))
    ELSE line

\* text.lstrip(): leading blanks and newlines go
RECURSIVE LStrip(_)
LStrip(text) ==
    LET first == LStripLine(text[1])
    IN  IF first = <<>> /\ Len(text) > 1 THEN LStrip(Tail(text))
        ELSE <<first>> \o Tail(text)

\* the text read backwards
ReverseText(text) == Reverse([i \in 1..Len(text) |-> Reverse(text[i])])

\* text.strip()
Strip(text) == ReverseText(LStrip(ReverseText(LStrip(text))))

OPENAI_PLACEHOLDER == "your_openai_api_key_here"

\* a key check that accepts the placeholder
KeyMissing_noPlaceholder(key, placeholder) == key \in {NoToken, ""}

\* app.py lines 116 and 119: not key or key == placeholder
KeyMissing(key, placeholder) == key \in {NoToken, ""} \/ key = placeholder

\* num_posts when the request has none (line 270)
DEFAULT_NUM_POSTS == 3

\* request.json as a dict; a key the body does not have is Absent
StartData(context, num_posts, linkedin_urls, x_urls, x_search_terms) ==
    [tag |-> "dict", context |-> context, num_posts |-> num_posts,
     linkedin_urls |-> linkedin_urls, x_urls |-> x_urls,
     x_search_terms |-> x_search_terms]

\* request bodies: no JSON at all, the context missing, null, empty, blank (with
\* and without a newline), not a string, and two contexts that are accepted
StartRequests ==
    { NoneVal,
      StartData(Absent, Absent, Absent, Absent, Absent),
      StartData(NoneVal, Absent, Absent, Absent, Absent),
      StartData(Text(EmptyString), Absent, List(<<"u">>), Absent, Absent),
      StartData(Text(<<<<Piece(" ", 2)>>>>), Number(1), List(<<"u">>), NoneVal, NoneVal),
      StartData(Text(<<<<Piece(" ", 1)>>, EmptyLine>>), Absent, Absent, Absent, Absent),
      StartData(Number(5), Absent, Absent, Absent, Absent),
      StartData(Text(<<<<Piece(" ", 1), Piece("c", 1), Piece(" ", 1)>>>>),
                Absent, Absent, Absent, Absent),
      StartData(Text(<<<<Piece("c", 101)>>>>), Number(MaxPosts),
                List(<<"u">>), List(<<>>), List(<<"t">>)) }

\* a handler that never looks at the running flag
AlreadyRunning_never(status) == FALSE

\* line 265: if workflow_status['running']
AlreadyRunning(status) == status.running

\* a context check that forgets strip()
ContextIsEmpty_noStrip(context) == Ok(PyNot(context))

\* line 275: not context or not context.strip(); a truthy value that is no
\* string has no strip
ContextIsEmpty(context) ==
    IF PyNot(context) THEN Ok(TRUE)
    ELSE IF context.tag # "text" THEN Exc("AttributeError")
    ELSE Ok(Strip(context.v) = EmptyString)

\* jsonify({'error': message}), code
ErrorResponse(code, message) == [code |-> code, success |-> FALSE, error |-> message]

\* lines 286-289
SuccessResponse ==
    [code |-> 200, success |-> TRUE, error |-> "", message |-> "Workflow started successfully"]

\* the locals of a thread that has not reached them
Unbound == [tag |-> "unbound"]

\* threading.Thread(target=run_workflow_async, args=(...)) once started.
\* items are the records a scrape has read and not yet formatted, responses
\* the answers of the two generators while the validator is called.  The
\* field validator tells how the validator call of the run went ("" before
\* execute_workflow has ended), the field written lists the progress texts
\* the run has stored (both kept for the properties; the code reads neither)
NewThread(context, num_posts, linkedin_urls, x_urls, x_search_terms) ==
    [pc |-> "L108", context |-> context, num_posts |-> num_posts,
     linkedin_urls |-> linkedin_urls, x_urls |-> x_urls,
     x_search_terms |-> x_search_terms,
     linkedin_examples |-> Unbound, x_examples |-> Unbound, examples |-> Unbound,
     items |-> Unbound, responses |-> Unbound,
     final_output |-> Unbound, formatted_output |-> Unbound, ui_output |-> Unbound,
     e |-> Unbound, validator |-> "", written |-> <<>>]

\* start_workflow (lines 262-292): the response, and the thread it starts
StartWorkflowHandler(status, data) ==
    IF AlreadyRunning(status)
    THEN [response |-> ErrorResponse(400, "Workflow is already running"),
          thread |-> NoneVal]
    ELSE IF data.tag # "dict"                      \* data.get on no dict, line 269
    THEN [response |-> ErrorResponse(500, "AttributeError"), thread |-> NoneVal]
    ELSE LET context == Get(data.context, Text(EmptyString))
             num_posts == Get(data.num_posts, Number(DEFAULT_NUM_POSTS))
             linkedin_urls == Get(data.linkedin_urls, NoneVal)
             x_urls == Get(data.x_urls, NoneVal)
             x_search_terms == Get(data.x_search_terms, NoneVal)
             empty == ContextIsEmpty(context)
         IN  IF empty.tag = "exc"
             THEN [response |-> ErrorResponse(500, empty.error), thread |-> NoneVal]
             ELSE IF empty.value
             THEN [response |-> ErrorResponse(400, "Context cannot be empty"),
                   thread |-> NoneVal]
             ELSE [response |-> SuccessResponse,
                   thread |-> NewThread(context.v, num_posts.v, linkedin_urls,
                                        x_urls, x_search_terms)]

\* workflow_status shows the end of a run: running is false, with 'Complete!'
\* and an output, or with an error
Settled ==
    /\ ~workflow_status.running
    /\ \/ (workflow_status.progress = "Complete!" /\ workflow_status.output # EmptyString)
       \/ workflow_status.error # NoneVal

\* the web server is sent at most MaxRequests requests, and none in a
\* behaviour of a command-line program, where no server was started
RequestsLeft == cli_pc = "idle" /\ n_requests + n_gets < MaxRequests

\* POST /start_workflow
StartWorkflow ==
    /\ RequestsLeft
    /\ \E data \in StartRequests :
         LET r == StartWorkflowHandler(workflow_status, data)
         IN  /\ start_request' = data
             /\ start_response' = r.response
             /\ threads' = IF r.thread = NoneVal THEN threads
                           ELSE Append(threads, r.thread)
             /\ settled_seen' = IF r.thread = NoneVal THEN settled_seen ELSE Settled
    /\ n_requests' = n_requests + 1
    /\ UNCHANGED <<config, workflow_status, remote_calls, files, n_gets, get_pc,
                   get_response>>
    /\ UNCHANGED notAppVars

\* the positions of a thread in run_workflow_async, in the order of the code
PcOrder ==
    << "L108", "L109", "L110", "L111", "L114", "L123", "L127",
       "L129", "L129_dataset", "L129_raw", "L129_examples", "L153", "L157",
       "L159", "L159_dataset", "L159_raw", "L159_examples", "L182", "L186",
       "L189", "L189_second", "L190", "L190_validator", "L196", "L205",
       "L208", "L209", "L210", "L213", "L214", "L215", "done" >>

\* the place of a position in the order of the code
Rank(pc) == CHOOSE k \in 1..Len(PcOrder) : PcOrder[k] = pc

\* the positions inside execute_workflow
GenerationPcs == {"L189", "L189_second", "L190", "L190_validator"}

\* thread i is at position pc of run_workflow_async
At(i, pc) == i \in 1..Len(threads) /\ threads[i].pc = pc

\* what a step of a thread leaves alone besides workflow_status and its locals
RunFrame ==
    /\ UNCHANGED <<config, n_requests, start_request, start_response, n_gets, get_pc,
                   get_response>>
    /\ settled_seen' = (settled_seen \/ Settled')
    /\ UNCHANGED notAppVars

\* line 108: workflow_status['running'] = True
RunL108(i) ==
    /\ At(i, "L108")
    /\ workflow_status' = [workflow_status EXCEPT !.running = TRUE]
    /\ threads' = [threads EXCEPT ![i].pc = "L109"]
    /\ UNCHANGED <<remote_calls, files>>
    /\ RunFrame

\* line 109: workflow_status['error'] = None
RunL109(i) ==
    /\ At(i, "L109")
    /\ workflow_status' = [workflow_status EXCEPT !.error = NoneVal]
    /\ threads' = [threads EXCEPT ![i].pc = "L110"]
    /\ UNCHANGED <<remote_calls, files>>
    /\ RunFrame

\* line 110: workflow_status['output'] = ''
RunL110(i) ==
    /\ At(i, "L110")
    /\ workflow_status' = [workflow_status EXCEPT !.output = EmptyString]
    /\ threads' = [threads EXCEPT ![i].pc = "L111"]
    /\ UNCHANGED <<remote_calls, files>>
    /\ RunFrame

\* line 111: workflow_status['full_output'] = ''
RunL111(i) ==
    /\ At(i, "L111")
    /\ workflow_status' = [workflow_status EXCEPT !.full_output = EmptyString]
    /\ threads' = [threads EXCEPT ![i].pc = "L114"]
    /\ UNCHANGED <<remote_calls, files>>
    /\ RunFrame

\* lines 116-120: the exception the key checks raise, or None
CheckKeys(cfg) ==
    IF KeyMissing(cfg.OPENAI_API_KEY, OPENAI_PLACEHOLDER)
    THEN Exc("OPENAI_API_KEY not configured!")
    ELSE IF KeyMissing(cfg.APIFY_API_TOKEN, APIFY_PLACEHOLDER)
    THEN Exc("APIFY_API_TOKEN not configured!")
    ELSE NoneVal

\* lines 114-120: the progress text is set, then the keys are checked
RunL114(i) ==
    /\ At(i, "L114")
    /\ workflow_status' = [workflow_status EXCEPT !.progress = "Validating API keys..."]
    /\ LET raised == CheckKeys(config)
       IN  threads' = IF raised.tag = "exc"
                      THEN [threads EXCEPT ![i].pc = "L213", ![i].e = raised,
                              ![i].written = Append(@, "Validating API keys...")]
                      ELSE [threads EXCEPT ![i].pc = "L123",
                              ![i].written = Append(@, "Validating API keys...")]
    /\ UNCHANGED <<remote_calls, files>>
    /\ RunFrame

\* line 123
RunL123(i) ==
    /\ At(i, "L123")
    /\ workflow_status' = [workflow_status EXCEPT !.progress = "Scraping LinkedIn posts..."]
    /\ threads' = [threads EXCEPT ![i].pc = "L127",
                     ![i].written = Append(@, "Scraping LinkedIn posts...")]
    /\ UNCHANGED <<remote_calls, files>>
    /\ RunFrame

\* a fallback that leaves the examples empty
Fallback_empty(platform, branch) == [kind |-> "empty", platform |-> platform]

\* the literal examples of lines 135-141 and 144-150 (LinkedIn), 165-170 and
\* 173-178 (X); the literal of the except branch is indented deeper
Fallback(platform, branch) == [kind |-> "fallback", platform |-> platform, branch |-> branch]

\* how the run of an actor ends (client.actor(..).call, scraper line 57 / 87)
ActorOutcomes == {"returned", "failed"}

\* what the read of a dataset gives a background run: a failure, a record
\* both variants keep, or a record with a text of nine characters and a null
\* author (the LinkedIn variant raises on it, the X variant skips it and
\* returns the placeholder text)
AppAnswers ==
    { Exc("ApifyError"),
      Ok(<<Item(Str(0, FALSE, 20, 0), Absent, AuthorDict(Name("eve"), Absent))>>),
      Ok(<<Item(Str(0, FALSE, 9, 0), Absent, NoneVal)>>) }

\* lines 127-150: without URLs the literal example is taken; with URLs
\* scrape_linkedin is called and runs up to its remote call
RunL127(i) ==
    /\ At(i, "L127")
    /\ LET t == threads[i]
           pre == LinkedInPreflight(config.APIFY_API_TOKEN, t.linkedin_urls)
       IN  IF ~Truthy(t.linkedin_urls)
           THEN /\ threads' = [threads EXCEPT ![i].pc = "L153",
                                 ![i].linkedin_examples = Fallback("LinkedIn", "else")]
                /\ UNCHANGED remote_calls
           ELSE IF pre.tag = "exc"
           THEN /\ threads' = [threads EXCEPT ![i].pc = "L153",
                                 ![i].linkedin_examples = Fallback("LinkedIn", "except")]
                /\ UNCHANGED remote_calls
           ELSE /\ threads' = [threads EXCEPT ![i].pc = "L129"]
                /\ remote_calls' = [remote_calls EXCEPT !.scrape = @ + 1]
    /\ UNCHANGED <<workflow_status, files>>
    /\ RunFrame

\* the position of a run inside the scrape of a variant, called at line 129
\* (LinkedIn) or 159 (X): the run of the actor is outstanding, the read of
\* the dataset is outstanding, the raw file is to be written, the examples
\* are to be formatted and written
ScrapePc(variant, stage) ==
    LET line == IF variant = "LinkedIn" THEN "L129" ELSE "L159"
    IN  CASE stage = "actor" -> line
          [] stage = "dataset" -> IF variant = "LinkedIn" THEN "L129_dataset" ELSE "L159_dataset"
          [] stage = "raw" -> IF variant = "LinkedIn" THEN "L129_raw" ELSE "L159_raw"
          [] stage = "examples" -> IF variant = "LinkedIn" THEN "L129_examples"
                                   ELSE "L159_examples"

ScrapePcs(variant) ==
    {ScrapePc(variant, stage) : stage \in {"actor", "dataset", "raw", "examples"}}

\* the scrape of a variant has ended for thread t: the examples are bound
\* (linkedin_examples at lines 129-141, x_examples at lines 159-170) and the
\* run goes on with the next progress text
ScrapeEnds(t, variant, examples) ==
    IF variant = "LinkedIn"
    THEN [t EXCEPT !.pc = "L153", !.linkedin_examples = examples, !.items = Unbound]
    ELSE [t EXCEPT !.pc = "L182", !.x_examples = examples, !.items = Unbound]

\* the run of the actor ends (scraper line 57 / 87): when it returned, the
\* read of its dataset is issued (line 61 / 94); when it failed, the except
\* branch of the run takes the literal example
RunScrapeActor(i, variant) ==
    /\ At(i, ScrapePc(variant, "actor"))
    /\ \E outcome \in ActorOutcomes :
         IF outcome = "failed"
         THEN /\ threads' = [threads EXCEPT
                               ![i] = ScrapeEnds(@, variant, Fallback(variant, "except"))]
              /\ UNCHANGED remote_calls
         ELSE /\ threads' = [threads EXCEPT ![i].pc = ScrapePc(variant, "dataset")]
              /\ remote_calls' = [remote_calls EXCEPT !.scrape = @ + 1]
    /\ UNCHANGED <<workflow_status, files>>
    /\ RunFrame

\* the read of the dataset ends (scraper lines 60-62 / 93-95) with the
\* records, or fails
RunScrapeDataset(i, variant) ==
    /\ At(i, ScrapePc(variant, "dataset"))
    /\ \E answer \in AppAnswers :
         threads' = [threads EXCEPT ![i] =
                       IF answer.tag = "exc"
                       THEN ScrapeEnds(@, variant, Fallback(variant, "except"))
                       ELSE [@ EXCEPT !.pc = ScrapePc(variant, "raw"),
                                      !.items = List(answer.value)]]
    /\ UNCHANGED <<workflow_status, remote_calls, files>>
    /\ RunFrame

\* the raw records are written to their file (scraper lines 67-71 / 100-104);
\* when open or write fails the except branch of the run takes the literal
\* example
RunScrapeRaw(i, variant) ==
    /\ At(i, ScrapePc(variant, "raw"))
    /\ \E outcome \in RawFileOutcomes(threads[i].items.items) :
         /\ files' = IF outcome = "open failed" THEN files
                     ELSE files \cup {RawFile(variant)}
         /\ threads' = [threads EXCEPT ![i] =
                          IF outcome = "written"
                          THEN [@ EXCEPT !.pc = ScrapePc(variant, "examples")]
                          ELSE ScrapeEnds(@, variant, Fallback(variant, "except"))]
    /\ UNCHANGED <<workflow_status, remote_calls>>
    /\ RunFrame

\* the records are formatted, the examples file is written and the scrape
\* returns the examples (scraper lines 76-85 / 109-118); when the formatting
\* raises no file is written and the except branch takes the literal example,
\* as it does when open or write of the examples file fails
RunScrapeExamples(i, variant) ==
    /\ At(i, ScrapePc(variant, "examples"))
    /\ LET formatted == FormatAsExamples(variant, threads[i].items.items)
       IN  IF formatted.tag = "exc"
           THEN /\ threads' = [threads EXCEPT
                                 ![i] = ScrapeEnds(@, variant, Fallback(variant, "except"))]
                /\ UNCHANGED files
           ELSE \E outcome \in FileOutcomes :
                  /\ files' = IF outcome = "open failed" THEN files
                              ELSE files \cup {ExamplesFile(variant)}
                  /\ threads' = [threads EXCEPT ![i] =
                                   ScrapeEnds(@, variant,
                                              IF outcome = "written" THEN formatted.value
                                              ELSE Fallback(variant, "except"))]
    /\ UNCHANGED <<workflow_status, remote_calls>>
    /\ RunFrame

\* lines 129-141: the steps of scrape_linkedin from the run of its actor on
RunL129(i) == RunScrapeActor(i, "LinkedIn")
RunL129_dataset(i) == RunScrapeDataset(i, "LinkedIn")
RunL129_raw(i) == RunScrapeRaw(i, "LinkedIn")
RunL129_examples(i) == RunScrapeExamples(i, "LinkedIn")

\* line 153
RunL153(i) ==
    /\ At(i, "L153")
    /\ workflow_status' = [workflow_status EXCEPT !.progress = "Scraping X posts..."]
    /\ threads' = [threads EXCEPT ![i].pc = "L157",
                     ![i].written = Append(@, "Scraping X posts...")]
    /\ UNCHANGED <<remote_calls, files>>
    /\ RunFrame

\* lines 160-161: x if x and len(x) > 0 else None
OrNone(sel) == IF Truthy(sel) THEN sel ELSE NoneVal

\* lines 157-178: as for LinkedIn, with the URLs and the search terms
RunL157(i) ==
    /\ At(i, "L157")
    /\ LET t == threads[i]
           pre == XPreflight(config.APIFY_API_TOKEN, OrNone(t.x_urls),
                             OrNone(t.x_search_terms), NoneVal)
       IN  IF ~(Truthy(t.x_urls) \/ Truthy(t.x_search_terms))
           THEN /\ threads' = [threads EXCEPT ![i].pc = "L182",
                                 ![i].x_examples = Fallback("X", "else")]
                /\ UNCHANGED remote_calls
           ELSE IF pre.tag = "exc"
           THEN /\ threads' = [threads EXCEPT ![i].pc = "L182",
                                 ![i].x_examples = Fallback("X", "except")]
                /\ UNCHANGED remote_calls
           ELSE /\ threads' = [threads EXCEPT ![i].pc = "L159"]
                /\ remote_calls' = [remote_calls EXCEPT !.scrape = @ + 1]
    /\ UNCHANGED <<workflow_status, files>>
    /\ RunFrame

\* lines 159-170: the steps of scrape_x from the run of its actor on
RunL159(i) == RunScrapeActor(i, "X")
RunL159_dataset(i) == RunScrapeDataset(i, "X")
RunL159_raw(i) == RunScrapeRaw(i, "X")
RunL159_examples(i) == RunScrapeExamples(i, "X")

\* line 183: linkedin_examples + "\n\n---\n\n" + x_examples
CombineExamples(linkedin_examples, x_examples) ==
    [kind |-> "combined", linkedin |-> linkedin_examples, x |-> x_examples]

\* line 191: examples.strip()
StripExamples(examples) == [kind |-> "stripped", of |-> examples]

\* lines 182-183
RunL182(i) ==
    /\ At(i, "L182")
    /\ workflow_status' =
         [workflow_status EXCEPT !.progress = "Preparing content generation..."]
    /\ threads' = [threads EXCEPT ![i].pc = "L186",
                     ![i].written = Append(@, "Preparing content generation..."),
                     ![i].examples = CombineExamples(threads[i].linkedin_examples,
                                                     threads[i].x_examples)]
    /\ UNCHANGED <<remote_calls, files>>
    /\ RunFrame

\* line 186
RunL186(i) ==
    /\ At(i, "L186")
    /\ workflow_status' =
         [workflow_status EXCEPT !.progress = "Generating content with AI agents..."]
    /\ threads' = [threads EXCEPT ![i].pc = "L189",
                     ![i].written = Append(@, "Generating content with AI agents...")]
    /\ UNCHANGED <<remote_calls, files>>
    /\ RunFrame

\* an execute_workflow that returns a report without a summary when the
\* validator call fails
ExecuteWorkflow_partialReport(context, examples, num_posts, responses, order, validator_response) ==
    LET out == [a \in Agents |-> GeneratePosts(a, num_posts, responses[a])]
    IN  IF Reraises(out[order[1]])
        THEN [outcome |-> out[order[1]], validator_called |-> FALSE]
        ELSE IF Reraises(out[order[2]])
        THEN [outcome |-> out[order[2]], validator_called |-> FALSE]
        ELSE [outcome |-> Ok(CompileFinalOutput(
                                context, out["LinkedIn"].value, out["X"].value,
                                IF validator_response.tag = "exc" THEN EmptyString
                                ELSE validator_response.value)),
              validator_called |-> TRUE]

\* execute_workflow as one call (orchestrator_agent.py lines 61-77): responses
\* are the answers to the two generator calls, order the order in which the
\* loop takes the futures, validator_response the answer to the validator call.
\* The first failed future the loop takes raises; the validator is called
\* when none failed
ExecuteWorkflow(context, examples, num_posts, responses, order, validator_response) ==
    LET out == [a \in Agents |-> GeneratePosts(a, num_posts, responses[a])]
    IN  IF Reraises(out[order[1]])
        THEN [outcome |-> out[order[1]], validator_called |-> FALSE]
        ELSE IF Reraises(out[order[2]])
        THEN [outcome |-> out[order[2]], validator_called |-> FALSE]
        ELSE LET p == ValidationPrompt(context, examples, out["LinkedIn"].value,
                                       out["X"].value)
             IN  IF p.tag = "exc" THEN [outcome |-> p, validator_called |-> FALSE]
                 ELSE IF validator_response.tag = "exc"
                 THEN [outcome |-> validator_response, validator_called |-> TRUE]
                 ELSE [outcome |-> Ok(CompileFinalOutput(context, out["LinkedIn"].value,
                                                         out["X"].value,
                                                         validator_response.value)),
                       validator_called |-> TRUE]

\* the call of execute_workflow taken step by step (SpecWorkflow) ends as
\* ExecuteWorkflow says, for the answers the remote calls gave
ExecuteWorkflowAgrees ==
    wf_pc \in {"returned", "raised"} =>
        \E order \in Orders(Agents),
           validator_response \in {Ok(t) : t \in LLMTexts} \cup {Exc(e) : e \in LLMErrors} :
            LET r == ExecuteWorkflow(wf_args.context, wf_args.examples, wf_args.num_posts,
                                     [a \in Agents |-> futures[a].response], order,
                                     validator_response)
            IN  /\ wf_result = r.outcome
                /\ r.validator_called <=> llm_calls["Validator"] = 1

\* what a remote text-generation call answers a background run
AppLLMResponses == {Ok(Plain), Exc("APIError")}

\* lines 188-193: execute_workflow is entered and submits its two generator
\* tasks (orchestrator_agent.py lines 96-110); a pool worker issues the
\* remote call of the first of them
RunL189(i) ==
    /\ At(i, "L189")
    /\ threads' = [threads EXCEPT ![i].pc = "L189_second"]
    /\ remote_calls' = [remote_calls EXCEPT !.llm = @ + 1]
    /\ UNCHANGED <<workflow_status, files>>
    /\ RunFrame

\* the other pool worker issues the remote call of the second generator
RunL189_second(i) ==
    /\ At(i, "L189_second")
    /\ threads' = [threads EXCEPT ![i].pc = "L190"]
    /\ remote_calls' = [remote_calls EXCEPT !.llm = @ + 1]
    /\ UNCHANGED <<workflow_status, files>>
    /\ RunFrame

\* both generator calls have ended and the loop has taken the futures
\* (orchestrator_agent.py lines 113-127): execute_workflow raises the
\* failure of a generator, or builds the validation prompt and issues the
\* validator call (lines 144-172)
RunL190(i) ==
    /\ At(i, "L190")
    /\ \E responses \in [Agents -> AppLLMResponses], order \in Orders(Agents) :
         LET t == threads[i]
             r == ExecuteWorkflow(Strip(t.context), StripExamples(t.examples),
                                  t.num_posts, responses, order, Ok(Plain))
         IN  IF r.validator_called
             THEN /\ threads' = [threads EXCEPT ![i].pc = "L190_validator",
                                                ![i].responses = responses]
                  /\ remote_calls' = [remote_calls EXCEPT !.llm = @ + 1]
             ELSE /\ threads' = [threads EXCEPT ![i].pc = "L213",
                                                ![i].e = r.outcome,
                                                ![i].validator = "not called"]
                  /\ UNCHANGED remote_calls
    /\ UNCHANGED <<workflow_status, files>>
    /\ RunFrame

\* the validator call has ended: execute_workflow returns the report
\* (orchestrator_agent.py lines 175-192) or raises the validator's failure
RunL190_validator(i) ==
    /\ At(i, "L190_validator")
    /\ \E validator_response \in AppLLMResponses :
         LET t == threads[i]
             r == ExecuteWorkflow(Strip(t.context), StripExamples(t.examples),
                                  t.num_posts, t.responses, <<"LinkedIn", "X">>,
                                  validator_response)
             v == IF validator_response.tag = "exc" THEN "failed" ELSE "answered"
         IN  threads' = IF r.outcome.tag = "exc"
                        THEN [threads EXCEPT ![i].pc = "L213",
                                             ![i].e = r.outcome,
                                             ![i].validator = v]
                        ELSE [threads EXCEPT ![i].pc = "L196",
                                             ![i].final_output = r.outcome.value,
                                             ![i].validator = v]
    /\ UNCHANGED <<workflow_status, remote_calls, files>>
    /\ RunFrame

\* the file of lines 198-200, named after the clock
OutputFile == "output_<timestamp>.txt"

\* a run that sets 'Complete!' before it writes the output file, so that a
\* refused write reaches the except clause after it
RunL196_completeBeforeWrite(i) ==
    /\ At(i, "L196")
    /\ LET formatted == FormatOutput(threads[i].final_output)
       IN  \E outcome \in FileOutcomes :
             /\ workflow_status' = [workflow_status EXCEPT !.progress = "Complete!"]
             /\ files' = IF outcome = "open failed" THEN files
                         ELSE files \cup {OutputFile}
             /\ threads' = IF outcome = "written"
                           THEN [threads EXCEPT ![i].pc = "L205",
                                   ![i].formatted_output = formatted,
                                   ![i].written = Append(@, "Complete!")]
                           ELSE [threads EXCEPT ![i].pc = "L213",
                                   ![i].formatted_output = formatted,
                                   ![i].e = Exc("OSError"),
                                   ![i].written = Append(@, "Complete!")]
    /\ UNCHANGED remote_calls
    /\ RunFrame

\* lines 196-202: the report is formatted and written to the output file.
\* The file system may refuse: open() fails and leaves no file, or the file
\* is created and the write fails; both reach the except clause
RunL196(i) ==
    /\ At(i, "L196")
    /\ LET formatted == FormatOutput(threads[i].final_output)
       IN  \E outcome \in FileOutcomes :
             /\ files' = IF outcome = "open failed" THEN files
                         ELSE files \cup {OutputFile}
             /\ threads' = IF outcome = "written"
                           THEN [threads EXCEPT ![i].pc = "L205",
                                   ![i].formatted_output = formatted]
                           ELSE [threads EXCEPT ![i].pc = "L213",
                                   ![i].formatted_output = formatted,
                                   ![i].e = Exc("OSError")]
    /\ UNCHANGED <<workflow_status, remote_calls>>
    /\ RunFrame

\* lines 205-207: the report is filtered for the UI and the progress text is
\* set to 'Complete!'
RunL205(i) ==
    /\ At(i, "L205")
    /\ workflow_status' = [workflow_status EXCEPT !.progress = "Complete!"]
    /\ threads' = [threads EXCEPT ![i].pc = "L208",
                     ![i].ui_output = FilterSummaryFromOutput(threads[i].formatted_output),
                     ![i].written = Append(@, "Complete!")]
    /\ UNCHANGED <<remote_calls, files>>
    /\ RunFrame

\* line 208: workflow_status['output'] = ui_output
RunL208(i) ==
    /\ At(i, "L208")
    /\ workflow_status' = [workflow_status EXCEPT !.output = threads[i].ui_output]
    /\ threads' = [threads EXCEPT ![i].pc = "L209"]
    /\ UNCHANGED <<remote_calls, files>>
    /\ RunFrame

\* line 209: workflow_status['full_output'] = formatted_output
RunL209(i) ==
    /\ At(i, "L209")
    /\ workflow_status' =
         [workflow_status EXCEPT !.full_output = threads[i].formatted_output]
    /\ threads' = [threads EXCEPT ![i].pc = "L210"]
    /\ UNCHANGED <<remote_calls, files>>
    /\ RunFrame

\* run_workflow_async has returned and the thread has ended: the examples,
\* records and answers its frame held are gone.  Of the ended run the model
\* keeps its arguments, its failure e, its reports and what it wrote.
Returned(t) ==
    [t EXCEPT !.pc = "done",
              !.linkedin_examples = Unbound, !.x_examples = Unbound,
              !.examples = Unbound, !.items = Unbound, !.responses = Unbound]

\* line 210: workflow_status['running'] = False, and the thread ends
RunL210(i) ==
    /\ At(i, "L210")
    /\ workflow_status' = [workflow_status EXCEPT !.running = FALSE]
    /\ threads' = [threads EXCEPT ![i] = Returned(@)]
    /\ UNCHANGED <<remote_calls, files>>
    /\ RunFrame

\* line 213: workflow_status['error'] = str(e)
RunL213(i) ==
    /\ At(i, "L213")
    /\ workflow_status' =
         [workflow_status EXCEPT !.error = [tag |-> "str", s |-> threads[i].e.error]]
    /\ threads' = [threads EXCEPT ![i].pc = "L214"]
    /\ UNCHANGED <<remote_calls, files>>
    /\ RunFrame

\* line 214: workflow_status['running'] = False
RunL214(i) ==
    /\ At(i, "L214")
    /\ workflow_status' = [workflow_status EXCEPT !.running = FALSE]
    /\ threads' = [threads EXCEPT ![i].pc = "L215"]
    /\ UNCHANGED <<remote_calls, files>>
    /\ RunFrame

\* line 215: workflow_status['progress'] = 'Error occurred', and the thread ends
RunL215(i) ==
    /\ At(i, "L215")
    /\ workflow_status' = [workflow_status EXCEPT !.progress = "Error occurred"]
    /\ threads' = [threads EXCEPT
                     ![i] = Returned([@ EXCEPT !.written = Append(@, "Error occurred")])]
    /\ UNCHANGED <<remote_calls, files>>
    /\ RunFrame

\* what a GET handler leaves alone: it reads workflow_status and writes nothing
GetFrame ==
    /\ UNCHANGED <<config, workflow_status, threads, n_requests, start_request,
                   start_response, remote_calls, settled_seen, files>>
    /\ UNCHANGED notAppVars

\* GET /status, line 301: the handler is entered and reads workflow_status['running']
GetStatusL301 ==
    /\ RequestsLeft
    /\ get_pc = "idle"
    /\ n_gets' = n_gets + 1
    /\ get_response' = [route |-> "status", running |-> workflow_status.running]
    /\ get_pc' = "L302"
    /\ GetFrame

\* line 302: workflow_status['progress'] is read
GetStatusL302 ==
    /\ get_pc = "L302"
    /\ get_response' = [route |-> "status", running |-> get_response.running,
                        progress |-> workflow_status.progress]
    /\ get_pc' = "L303"
    /\ UNCHANGED n_gets
    /\ GetFrame

\* line 303: workflow_status['output'] is read
GetStatusL303 ==
    /\ get_pc = "L303"
    /\ get_response' = [route |-> "status", running |-> get_response.running,
                        progress |-> get_response.progress,
                        output |-> workflow_status.output]
    /\ get_pc' = "L304"
    /\ UNCHANGED n_gets
    /\ GetFrame

\* lines 304-305: workflow_status['error'] is read and the dict is sent
GetStatusL304 ==
    /\ get_pc = "L304"
    /\ get_response' = [route |-> "status", code |-> 200,
                        running |-> get_response.running,
                        progress |-> get_response.progress,
                        output |-> get_response.output,
                        error |-> workflow_status.error]
    /\ get_pc' = "idle"
    /\ UNCHANGED n_gets
    /\ GetFrame

NO_OUTPUT_ERROR == "No output available to download"

\* line 316: not workflow_status.get('full_output')
NoFullOutput(status) == status.full_output = EmptyString

\* GET /download_pdf, lines 313-317: without a full output the error is sent;
\* with one the handler goes on to build the document
DownloadPdfL316 ==
    /\ RequestsLeft
    /\ get_pc = "idle"
    /\ n_gets' = n_gets + 1
    /\ IF NoFullOutput(workflow_status)
       THEN /\ get_response' = [route |-> "download_pdf", code |-> 400,
                                error |-> NO_OUTPUT_ERROR]
            /\ get_pc' = "idle"
       ELSE /\ get_response' = [route |-> "download_pdf"]
            /\ get_pc' = "L346"
    /\ GetFrame

PDF_ERROR == "Failed to generate PDF"

\* lines 346-399: workflow_status['full_output'] is read again, its lines are
\* laid out and the document is sent; when building or sending the document
\* raises, the except clause answers 500 (lines 395-399)
DownloadPdfL346 ==
    /\ get_pc = "L346"
    /\ \E built \in BOOLEAN :
         get_response' = IF built
                         THEN [route |-> "download_pdf", code |-> 200,
                               document_of |-> workflow_status.full_output]
                         ELSE [route |-> "download_pdf", code |-> 500,
                               error |-> PDF_ERROR]
    /\ get_pc' = "idle"
    /\ UNCHANGED n_gets
    /\ GetFrame

\* the values of the two keys of config.py
OpenAIKeyValues == {NoToken, OPENAI_PLACEHOLDER, "sk-key"}

AppInit ==
    /\ config \in [OPENAI_API_KEY : OpenAIKeyValues, APIFY_API_TOKEN : TokenValues]
    /\ workflow_status = InitialStatus
    /\ threads = <<>>
    /\ n_requests = 0
    /\ n_gets = 0
    /\ get_pc = "idle"
    /\ get_response = NoneVal
    /\ start_request = NoneVal
    /\ start_response = NoneVal
    /\ remote_calls = [scrape |-> 0, llm |-> 0]
    /\ settled_seen = FALSE
    /\ files = {}

Init == AppInit /\ WfIdle /\ FmtIdle /\ FetchIdle /\ CliIdle

Next ==
    \/ StartWorkflow
    \/ GetStatusL301
    \/ GetStatusL302
    \/ GetStatusL303
    \/ GetStatusL304
    \/ DownloadPdfL316
    \/ DownloadPdfL346
    \/ \E i \in 1..MaxRequests : RunL108(i)
    \/ \E i \in 1..MaxRequests : RunL109(i)
    \/ \E i \in 1..MaxRequests : RunL110(i)
    \/ \E i \in 1..MaxRequests : RunL111(i)
    \/ \E i \in 1..MaxRequests : RunL114(i)
    \/ \E i \in 1..MaxRequests : RunL123(i)
    \/ \E i \in 1..MaxRequests : RunL127(i)
    \/ \E i \in 1..MaxRequests : RunL129(i)
    \/ \E i \in 1..MaxRequests : RunL129_dataset(i)
    \/ \E i \in 1..MaxRequests : RunL129_raw(i)
    \/ \E i \in 1..MaxRequests : RunL129_examples(i)
    \/ \E i \in 1..MaxRequests : RunL153(i)
    \/ \E i \in 1..MaxRequests : RunL157(i)
    \/ \E i \in 1..MaxRequests : RunL159(i)
    \/ \E i \in 1..MaxRequests : RunL159_dataset(i)
    \/ \E i \in 1..MaxRequests : RunL159_raw(i)
    \/ \E i \in 1..MaxRequests : RunL159_examples(i)
    \/ \E i \in 1..MaxRequests : RunL182(i)
    \/ \E i \in 1..MaxRequests : RunL186(i)
    \/ \E i \in 1..MaxRequests : RunL189(i)
    \/ \E i \in 1..MaxRequests : RunL189_second(i)
    \/ \E i \in 1..MaxRequests : RunL190(i)
    \/ \E i \in 1..MaxRequests : RunL190_validator(i)
    \/ \E i \in 1..MaxRequests : RunL196(i)
    \/ \E i \in 1..MaxRequests : RunL205(i)
    \/ \E i \in 1..MaxRequests : RunL208(i)
    \/ \E i \in 1..MaxRequests : RunL209(i)
    \/ \E i \in 1..MaxRequests : RunL210(i)
    \/ \E i \in 1..MaxRequests : RunL213(i)
    \/ \E i \in 1..MaxRequests : RunL214(i)
    \/ \E i \in 1..MaxRequests : RunL215(i)

Spec == Init /\ [][Next]_vars

\* thread i has entered run_workflow_async and has not left it
InProgress(i) == threads[i].pc \notin {"L108", "done"}

\* the request just handled asked for nothing the handler can run: no JSON
\* body, no context, or a context of blanks and newlines only
BlankContext(data) ==
    \/ data.tag # "dict"
    \/ data.context.tag = "absent"
    \/ /\ data.context.tag = "text"
       /\ \A l \in 1..Len(data.context.v) :
            \A k \in 1..Len(data.context.v[l]) : data.context.v[l][k].s = " "

\* C4 (as claimed): at no time two background runs are in progress, each one
\* between its first write to workflow_status (line 108) and its end
C4_AtMostOneRunInProgress ==
    Cardinality({i \in 1..Len(threads) : InProgress(i)}) <= 1

\* C5: a start_workflow request handled while workflow_status['running'] is
\* true gets the error response, starts no thread and leaves every field of
\* workflow_status as it was
C5_StartWhileRunningRejected ==
    [][(n_requests' = n_requests + 1 /\ workflow_status.running)
         => /\ start_response' = ErrorResponse(400, "Workflow is already running")
            /\ threads' = threads
            /\ workflow_status' = workflow_status]_vars

\* C5 witness: a request with an acceptable context was answered with the
\* error while a run was in progress, and the status is that of the run
C5_Witness ==
    /\ n_requests = 2
    /\ start_response = ErrorResponse(400, "Workflow is already running")
    /\ start_request.tag = "dict" /\ ~BlankContext(start_request) /\ start_request.context.tag = "text"
    /\ Len(threads) = 1
    /\ InProgress(1)
    /\ workflow_status.running
    /\ workflow_status.progress = "Generating content with AI agents..."

\* C10: a start_workflow request whose context is missing, empty or made of
\* blanks only is answered with an error; no thread is started, no remote
\* call is issued and workflow_status is left as it was
C10_BlankContextRejected ==
    [][(n_requests' = n_requests + 1 /\ BlankContext(start_request'))
         => /\ start_response'.code \in {400, 500}
            /\ ~start_response'.success
            /\ start_response'.error # ""
            /\ threads' = threads
            /\ remote_calls' = remote_calls
            /\ workflow_status' = workflow_status]_vars

\* C10 witness: with no run in progress, a context of blanks was answered
\* with the empty-context error and nothing was started
C10_Witness ==
    /\ n_requests = 1
    /\ start_request.tag = "dict"
    /\ start_request.context = Text(<<<<Piece(" ", 2)>>>>)
    /\ start_response = ErrorResponse(400, "Context cannot be empty")
    /\ threads = <<>>
    /\ remote_calls = [scrape |-> 0, llm |-> 0]
    /\ workflow_status = InitialStatus

\* a credential of the configuration is missing or is its placeholder
BadCredential ==
    \/ config.OPENAI_API_KEY \in {NoToken, "", OPENAI_PLACEHOLDER}
    \/ config.APIFY_API_TOKEN \in {NoToken, "", APIFY_PLACEHOLDER}

\* the positions of a run that has failed
ErrorPath == {"L213", "L214", "L215"}

\* thread i has ended through the except clause
EndedInError(i) == threads[i].pc = "done" /\ threads[i].e # Unbound

\* C11: with a missing or placeholder credential no run gets past the key
\* checks: no scraping call and no text-generation call is ever issued, and a
\* run that has left the checks is on its error path with the
\* configuration error
C11_BadCredentialEndsRun ==
    BadCredential =>
        /\ remote_calls = [scrape |-> 0, llm |-> 0]
        /\ \A i \in 1..Len(threads) :
             /\ threads[i].pc \in {"L108", "L109", "L110", "L111", "L114", "done"}
                                   \cup ErrorPath
             /\ (threads[i].pc \in ErrorPath \cup {"done"})
                  => threads[i].e \in {Exc("OPENAI_API_KEY not configured!"),
                                       Exc("APIFY_API_TOKEN not configured!")}

\* C11 witness: with the placeholder as the scraping token, a run that was
\* asked to scrape LinkedIn has ended in error and the status shows it
C11_Witness ==
    /\ config.OPENAI_API_KEY = "sk-key"
    /\ config.APIFY_API_TOKEN = APIFY_PLACEHOLDER
    /\ Len(threads) = 1
    /\ Truthy(threads[1].linkedin_urls)
    /\ EndedInError(1)
    /\ workflow_status.error = [tag |-> "str", s |-> "APIFY_API_TOKEN not configured!"]
    /\ workflow_status.progress = "Error occurred"
    /\ ~workflow_status.running

\* examples that are not the empty string
NonEmptyExamples(ex) ==
    \/ ex.kind \in {"fallback", "placeholder"}
    \/ (ex.kind = "joined" /\ ex.examples # <<>>)

\* the positions of a background run at which a scraping call is made or is
\* under way (app.py lines 127-133 and 157-163)
RunScrapePcs == {"L127", "L157"} \cup ScrapePcs("LinkedIn") \cup ScrapePcs("X")

\* a background run that is scraping has no exception, and one that has
\* reached the generation phase holds non-empty examples for both platforms,
\* combined in the examples it passes to the coordinator
C12_WebRunHoldsExamples ==
    \A i \in 1..Len(threads) :
        LET t == threads[i]
        IN  /\ (t.pc \in RunScrapePcs) => t.e = Unbound
            /\ (t.pc \in {"L153", "L157"} \cup ScrapePcs("X"))
                 => t.linkedin_examples # Unbound /\ t.e = Unbound
            /\ (t.pc \in {"L182", "L186"} \cup GenerationPcs)
                 => /\ t.e = Unbound
                    /\ NonEmptyExamples(t.linkedin_examples)
                    /\ NonEmptyExamples(t.x_examples)
            /\ (t.pc \in GenerationPcs)
                 => t.examples = CombineExamples(t.linkedin_examples, t.x_examples)

\* no step a background run takes while it scrapes, whatever fails in it (the
\* credential or selector check, the actor, the dataset, the formatting, the
\* raw or the examples file), puts the run on its error path or ends it
C12_WebScrapeStepGoesOn ==
    \A i \in 1..Len(threads) :
        (threads[i].pc \in RunScrapePcs)
            => /\ threads'[i].e = Unbound
               /\ threads'[i].pc \notin ErrorPath \cup {"done"}

\* C12 witness: both scraping calls of a run failed and the run is in
\* execute_workflow with the two literal examples
C12_Witness ==
    \E i \in 1..Len(threads) :
        /\ threads[i].pc = "L190"
        /\ threads[i].linkedin_examples = Fallback("LinkedIn", "except")
        /\ threads[i].x_examples = Fallback("X", "except")
        /\ remote_calls.scrape >= 2

\* the validator call of thread i failed
ValidatorFailed(i) == threads[i].validator = "failed"

\* C13: a run whose validator call failed has no report: nothing is formatted,
\* the run is on its error path with the validator's error, and no step of it
\* writes output, full_output or a file; its write to error is the failure
C13_ValidatorFailureFailsRun ==
    /\ [](\A i \in 1..Len(threads) :
            ValidatorFailed(i) =>
                /\ threads[i].final_output = Unbound
                /\ threads[i].formatted_output = Unbound
                /\ threads[i].pc \in ErrorPath \cup {"done"}
                /\ threads[i].e \in {Exc(e) : e \in LLMErrors})
    /\ [][\A i \in 1..Len(threads) :
            (ValidatorFailed(i) /\ threads'[i] # threads[i]) =>
                /\ workflow_status'.output = workflow_status.output
                /\ workflow_status'.full_output = workflow_status.full_output
                /\ files' = files
                /\ (threads[i].pc = "L213") =>
                     workflow_status'.error = [tag |-> "str", s |-> threads[i].e.error]]_vars

\* C13 witness: the only run ended after its validator call failed; the status
\* holds the error and no output, and no report file exists
C13_Witness ==
    /\ Len(threads) = 1
    /\ ValidatorFailed(1)
    /\ threads[1].pc = "done"
    /\ remote_calls.llm = 3
    /\ workflow_status.error = [tag |-> "str", s |-> threads[1].e.error]
    /\ workflow_status.output = EmptyString
    /\ workflow_status.full_output = EmptyString
    /\ OutputFile \notin files

\* C14 (as claimed): when a run that failed ends (line 215), running is false,
\* error is the display string of its failure and progress is 'Error occurred'
C14_FailureRecorded ==
    [][\A i \in 1..Len(threads) :
         (threads[i].pc = "L215" /\ threads'[i].pc = "done") =>
             /\ ~workflow_status'.running
             /\ workflow_status'.error = [tag |-> "str", s |-> threads[i].e.error]
             /\ workflow_status'.progress = "Error occurred"]_vars

\* C14 for the first run, when no other run was started before it ended
C14_FailureRecorded_LoneRun ==
    [][\A i \in 1..Len(threads) :
         (threads[i].pc = "L215" /\ threads'[i].pc = "done" /\ Len(threads) = 1) =>
             /\ ~workflow_status'.running
             /\ workflow_status'.error = [tag |-> "str", s |-> threads[i].e.error]
             /\ workflow_status'.progress = "Error occurred"]_vars

\* thread i has written the report file
WroteReport(i) == threads[i].pc \in {"L205", "L208", "L209", "L210"}
                  \/ (threads[i].pc = "done" /\ threads[i].e = Unbound)

\* C17 (as claimed): the report file is the only file the runs persist; it is
\* there once a run is past the write, and it is not there while no run has
\* formatted a report
C17_OnlyReportFile ==
    /\ files \subseteq {OutputFile}
    /\ (\E i \in 1..Len(threads) : WroteReport(i)) => OutputFile \in files
    /\ (\A i \in 1..Len(threads) : threads[i].final_output = Unbound)
         => OutputFile \notin files

\* the progress texts of a run that has not ended, in the order of the code
ProgressSteps ==
    << "Validating API keys...", "Scraping LinkedIn posts...", "Scraping X posts...",
       "Preparing content generation...", "Generating content with AI agents..." >>

\* the two texts a run ends with
ProgressEnds == {"Complete!", "Error occurred"}

\* w moves forward through ProgressSteps from its first text, without a gap
\* and without a repetition
ForwardSteps(w) ==
    /\ Len(w) <= Len(ProgressSteps)
    /\ \A k \in 1..Len(w) : w[k] = ProgressSteps[k]

\* C26: the progress texts one run stores are the fixed texts in their order,
\* followed by at most one of 'Complete!' and 'Error occurred', which is the
\* last text of the run; a run that has ended has stored exactly one of the
\* two, and a run alone in the application leaves its last text in
\* workflow_status['progress']
C26_ProgressMovesForward ==
    \A i \in 1..Len(threads) :
        LET w == threads[i].written
            n == Len(w)
        IN  /\ \/ ForwardSteps(w)
               \/ (n >= 2 /\ ForwardSteps(SubSeq(w, 1, n - 1)) /\ w[n] \in ProgressEnds)
            /\ (threads[i].pc = "done")
                 => /\ n >= 2
                    /\ w[n] \in ProgressEnds
                    /\ (w[n] = "Complete!") <=> (threads[i].e = Unbound)
            /\ ("Complete!" \in {w[k] : k \in 1..n})
                 => (n = Len(ProgressSteps) + 1 /\ threads[i].e = Unbound)
            /\ (Len(threads) = 1 /\ n > 0) => workflow_status.progress = w[n]

\* C26 witness: a run stored every text and 'Complete!' and has ended
C26_Witness ==
    \E i \in 1..Len(threads) :
        /\ threads[i].pc = "done"
        /\ threads[i].written = ProgressSteps \o <<"Complete!">>

\* C26 witness for a failure: a run failed in the generation phase and ended
\* with 'Error occurred' after the five texts
C26_Witness_Error ==
    \E i \in 1..Len(threads) :
        /\ threads[i].pc = "done"
        /\ threads[i].written = ProgressSteps \o <<"Error occurred">>

\* thread i was started by an accepted request and has not cleared running
\* at its end (line 210 or line 214)
Unended(i) == threads[i].pc \notin {"L215", "done"}

\* a step in which GET /status reads workflow_status['running'] (line 301)
ReadsRunning == get_pc = "idle" /\ get_pc' = "L302"

\* C24 (as claimed): a status poll handled after a start_workflow request was
\* accepted and before the run it started has ended reads running = true
C24_PollSeesRunning ==
    [][(ReadsRunning /\ \E i \in 1..Len(threads) : Unended(i))
          => get_response'.running]_vars

\* C24 once the run has stored running = True: a status poll handled while the
\* only run is between line 109 and its end reads running = true
C24_PollSeesRunning_AfterLine108 ==
    [][(ReadsRunning /\ Len(threads) = 1 /\ Unended(1) /\ threads[1].pc # "L108")
          => get_response'.running]_vars

\* a poll answered while a run was in its generation phase: running is
\* reported true, with the progress text of the phase and no output
C24_PollDuringRun ==
    /\ get_pc = "idle"
    /\ get_response # NoneVal
    /\ get_response.route = "status"
    /\ get_response.running
    /\ get_response.progress = "Generating content with AI agents..."
    /\ get_response.output = EmptyString
    /\ Len(threads) = 1
    /\ threads[1].pc = "L190"

\* thread i has executed line 108
Begun(i) == threads[i].pc # "L108"

\* the run started last among those that have begun
LatestBegun(i) ==
    /\ i \in 1..Len(threads)
    /\ Begun(i)
    /\ \A j \in 1..Len(threads) : Begun(j) => j <= i

\* workflow_status shows a run that has ended with 'Complete!'
ShowsComplete == ~workflow_status.running /\ workflow_status.progress = "Complete!"

\* the outputs workflow_status holds are those of thread i: the formatted
\* report of its final_output, and that report filtered for the UI
HoldsReportOf(i) ==
    /\ threads[i].final_output # Unbound
    /\ workflow_status.full_output = FormatOutput(threads[i].final_output)
    /\ workflow_status.output = FilterSummaryFromOutput(workflow_status.full_output)
    /\ workflow_status.output # EmptyString

\* C25 (as claimed): whenever running is false and progress is 'Complete!',
\* error is null and the two outputs are the full report and the UI report
\* of the run started last
C25_CompleteIsConsistent ==
    ShowsComplete =>
        /\ workflow_status.error = NoneVal
        /\ \E i \in 1..Len(threads) : LatestBegun(i) /\ HoldsReportOf(i)

\* C25 while one run only has been started
C25_CompleteIsConsistent_LoneRun ==
    (ShowsComplete /\ Len(threads) = 1) =>
        /\ workflow_status.error = NoneVal
        /\ HoldsReportOf(1)
        /\ threads[1].pc = "done"

\* a lone run has ended with 'Complete!' and its two reports are stored
C25_LoneRunCompleted ==
    /\ Len(threads) = 1
    /\ threads[1].pc = "done"
    /\ ShowsComplete
    /\ HoldsReportOf(1)
    /\ workflow_status.output # workflow_status.full_output

\* thread i has reset the status (lines 108-111) and has not stored a report
AfterReset(i) ==
    \/ Rank("L114") <= Rank(threads[i].pc) /\ Rank(threads[i].pc) <= Rank("L205")
    \/ threads[i].pc \in ErrorPath

\* what GET /status and GET /download_pdf show of the outputs: nothing
ShowsNoOutput ==
    /\ workflow_status.output = EmptyString
    /\ workflow_status.full_output = EmptyString
    /\ NoFullOutput(workflow_status)

\* C29 (as claimed): while a run is between its reset of the status and its
\* completion, and after the run started last has ended in error, output and
\* full_output are empty: a poll shows no output and download_pdf answers
\* with the 'No output available to download' error
C29_NoStaleResult ==
    \A i \in 1..Len(threads) :
        (AfterReset(i) \/ (LatestBegun(i) /\ EndedInError(i))) => ShowsNoOutput

\* C29 while one run only has been started
C29_NoStaleResult_LoneRun ==
    (Len(threads) = 1 /\ (AfterReset(1) \/ EndedInError(1))) => ShowsNoOutput

\* a lone run has ended in error and download_pdf was answered with the error
C29_DownloadAfterFailedRun ==
    /\ Len(threads) = 1
    /\ EndedInError(1)
    /\ get_pc = "idle"
    /\ get_response = [route |-> "download_pdf", code |-> 400, error |-> NO_OUTPUT_ERROR]
    /\ ShowsNoOutput

\* thread i was started by an accepted request
Accepted(i) == i \in 1..Len(threads)

\* the run of thread i has ended
Ended(i) == Accepted(i) /\ threads[i].pc = "done"

\* every run that was started has ended
AllEnded == Len(threads) >= 1 /\ \A i \in 1..Len(threads) : Ended(i)

\* C23 (as claimed), as the result a finite run shows: when every run that
\* was started has ended, workflow_status has shown, at some time since the
\* last request was accepted, running = false with either 'Complete!' and a
\* non-empty output, or a non-null error.  (Where it has not, it never will
\* unless a further request arrives.)
C23_EndedRunsHaveSettled == AllEnded => settled_seen

\* C23 while one run only has been started: when it has ended the status
\* shows running = false with 'Complete!' and an output, or with an error
C23_EndedRunsHaveSettled_LoneRun ==
    (AllEnded /\ Len(threads) = 1) => (Settled /\ settled_seen)

\* C23, termination: every step of a run takes it to a later position of the
\* code (no step is guarded by anything but the position, so a run whose
\* remote calls answer is never stuck), and once every run has ended running
\* is false
C23_RunsEndWithRunningFalse ==
    /\ [][\A i \in 1..Len(threads) :
            (threads'[i] # threads[i]) => Rank(threads'[i].pc) > Rank(threads[i].pc)]_vars
    /\ [](AllEnded => ~workflow_status.running)

\* a lone run has ended after its validator call failed, and the status shows it
C23_LoneRunFailed ==
    /\ Len(threads) = 1
    /\ threads[1].pc = "done"
    /\ ValidatorFailed(1)
    /\ Settled
    /\ workflow_status.error # NoneVal

-----------------------------------------------------------------------------
(* The programs run from the command line: main.py, which runs the same     *)
(* workflow once with its own literals and writes output.txt, and           *)
(* test_openai_connection of verify_setup.py.  Both read the keys of the    *)
(* environment; neither touches workflow_status.                           *)

\* main.py lines 51-54, 81-83 and 123
MAIN_LINKEDIN_URLS == List(<<"u1", "u2">>)
MAIN_X_START_URLS == List(<<"u">>)
MAIN_X_SEARCH_TERMS == List(<<"t">>)
MAIN_X_HANDLES == List(<<>>)
MAIN_NUM_POSTS == 3

\* main.py lines 111-117: the context literal: an empty first line, five
\* lines of text indented by four blanks (86, 88, 95, 96 and 34 characters,
\* the first four ending in a blank) and a last line of four blanks, 409
\* characters in all.  The words of a line, from its first to its last
\* non-blank character, are a run of "c"
MAIN_CONTEXT ==
    << EmptyLine,
       <<Piece(" ", 4), Piece("c", 81), Piece(" ", 1)>>,
       <<Piece(" ", 4), Piece("c", 83), Piece(" ", 1)>>,
       <<Piece(" ", 4), Piece("c", 90), Piece(" ", 1)>>,
       <<Piece(" ", 4), Piece("c", 91), Piece(" ", 1)>>,
       <<Piece(" ", 4), Piece("c", 30)>>,
       <<Piece(" ", 4)>> >>

\* main.py line 148
MainOutputFile == "output.txt"

\* True and False as test_openai_connection returns them
PyBool(b) == [tag |-> "bool", v |-> b]

\* the locals of main() before the first of them is bound; status is the
\* exit status of the program, result what test_openai_connection returned
CliLocals ==
    [linkedin_examples |-> Unbound, x_examples |-> Unbound, examples |-> Unbound,
     items |-> Unbound, responses |-> Unbound, final_output |-> Unbound,
     formatted_output |-> Unbound, e |-> Unbound, status |-> Unbound,
     result |-> Unbound]

CliInit ==
    /\ cli_env \in [program : {"main", "verify_setup"},
                    OPENAI_API_KEY : OpenAIKeyValues, APIFY_API_TOKEN : TokenValues]
    /\ cli_pc = "start"
    /\ cli = CliLocals
    /\ cli_remote = [scrape |-> 0, llm |-> 0]
    /\ cli_files = {}

\* main.py lines 26-35: either key missing or its placeholder ends the
\* program with sys.exit(1) before anything else
MainL26 ==
    /\ cli_pc = "start"
    /\ cli_env.program = "main"
    /\ IF \/ KeyMissing(cli_env.OPENAI_API_KEY, OPENAI_PLACEHOLDER)
          \/ KeyMissing(cli_env.APIFY_API_TOKEN, APIFY_PLACEHOLDER)
       THEN /\ cli_pc' = "exited"
            /\ cli' = [cli EXCEPT !.status = 1]
       ELSE /\ cli_pc' = "L57"
            /\ UNCHANGED cli
    /\ UNCHANGED <<cli_env, cli_remote, cli_files>>
    /\ UNCHANGED notCliVars

\* the position of main() inside the scrape of a variant, called at line 57
\* (LinkedIn) or 86 (X)
MainScrapePc(variant, stage) ==
    CASE stage = "call" -> IF variant = "LinkedIn" THEN "L57" ELSE "L86"
      [] stage = "actor" -> IF variant = "LinkedIn" THEN "L57_actor" ELSE "L86_actor"
      [] stage = "dataset" -> IF variant = "LinkedIn" THEN "L57_dataset" ELSE "L86_dataset"
      [] stage = "raw" -> IF variant = "LinkedIn" THEN "L57_raw" ELSE "L86_raw"
      [] stage = "examples" -> IF variant = "LinkedIn" THEN "L57_examples"
                               ELSE "L86_examples"

\* the scrape of a variant has ended: the examples are bound (lines 57-70
\* and 86-101) and main() goes on
MainScrapeEnds(variant, examples) ==
    /\ cli' = IF variant = "LinkedIn"
              THEN [cli EXCEPT !.linkedin_examples = examples, !.items = Unbound]
              ELSE [cli EXCEPT !.x_examples = examples, !.items = Unbound]
    /\ cli_pc' = IF variant = "LinkedIn" THEN "L86" ELSE "L120"

\* lines 57-60 and 86-91: the scraper is called and runs up to the run of
\* its actor; when it raises before, the except branch takes the literal
MainScrapeCall(variant) ==
    /\ cli_pc = MainScrapePc(variant, "call")
    /\ LET pre == IF variant = "LinkedIn"
                  THEN LinkedInPreflight(cli_env.APIFY_API_TOKEN, MAIN_LINKEDIN_URLS)
                  ELSE XPreflight(cli_env.APIFY_API_TOKEN, OrNone(MAIN_X_START_URLS),
                                  OrNone(MAIN_X_SEARCH_TERMS), OrNone(MAIN_X_HANDLES))
       IN  IF pre.tag = "exc"
           THEN /\ MainScrapeEnds(variant, Fallback(variant, "main"))
                /\ UNCHANGED cli_remote
           ELSE /\ cli_pc' = MainScrapePc(variant, "actor")
                /\ cli_remote' = [cli_remote EXCEPT !.scrape = @ + 1]
                /\ UNCHANGED cli
    /\ UNCHANGED <<cli_env, cli_files>>
    /\ UNCHANGED notCliVars

\* the run of the actor ends: the read of the dataset is issued, or the
\* except branch takes the literal
MainScrapeActor(variant) ==
    /\ cli_pc = MainScrapePc(variant, "actor")
    /\ \E outcome \in ActorOutcomes :
         IF outcome = "failed"
         THEN /\ MainScrapeEnds(variant, Fallback(variant, "main"))
              /\ UNCHANGED cli_remote
         ELSE /\ cli_pc' = MainScrapePc(variant, "dataset")
              /\ cli_remote' = [cli_remote EXCEPT !.scrape = @ + 1]
              /\ UNCHANGED cli
    /\ UNCHANGED <<cli_env, cli_files>>
    /\ UNCHANGED notCliVars

\* the read of the dataset ends with the records, or fails
MainScrapeDataset(variant) ==
    /\ cli_pc = MainScrapePc(variant, "dataset")
    /\ \E answer \in AppAnswers :
         IF answer.tag = "exc"
         THEN MainScrapeEnds(variant, Fallback(variant, "main"))
         ELSE /\ cli_pc' = MainScrapePc(variant, "raw")
              /\ cli' = [cli EXCEPT !.items = List(answer.value)]
    /\ UNCHANGED <<cli_env, cli_remote, cli_files>>
    /\ UNCHANGED notCliVars

\* the raw records are written to their file, or open or write fails and the
\* except branch takes the literal
MainScrapeRaw(variant) ==
    /\ cli_pc = MainScrapePc(variant, "raw")
    /\ \E outcome \in RawFileOutcomes(cli.items.items) :
         /\ cli_files' = IF outcome = "open failed" THEN cli_files
                         ELSE cli_files \cup {RawFile(variant)}
         /\ IF outcome = "written"
            THEN /\ cli_pc' = MainScrapePc(variant, "examples")
                 /\ UNCHANGED cli
            ELSE MainScrapeEnds(variant, Fallback(variant, "main"))
    /\ UNCHANGED <<cli_env, cli_remote>>
    /\ UNCHANGED notCliVars

\* the records are formatted and the examples file is written, or the
\* formatting, open or write fails and the except branch takes the literal
MainScrapeExamples(variant) ==
    /\ cli_pc = MainScrapePc(variant, "examples")
    /\ LET formatted == FormatAsExamples(variant, cli.items.items)
       IN  IF formatted.tag = "exc"
           THEN /\ MainScrapeEnds(variant, Fallback(variant, "main"))
                /\ UNCHANGED cli_files
           ELSE \E outcome \in FileOutcomes :
                  /\ cli_files' = IF outcome = "open failed" THEN cli_files
                                  ELSE cli_files \cup {ExamplesFile(variant)}
                  /\ MainScrapeEnds(variant, IF outcome = "written" THEN formatted.value
                                             ELSE Fallback(variant, "main"))
    /\ UNCHANGED <<cli_env, cli_remote>>
    /\ UNCHANGED notCliVars

\* lines 120-141: the examples are combined, execute_workflow is entered and
\* a pool worker issues the remote call of the first generator
MainL120 ==
    /\ cli_pc = "L120"
    /\ cli' = [cli EXCEPT !.examples = CombineExamples(cli.linkedin_examples,
                                                     cli.x_examples)]
    /\ cli_remote' = [cli_remote EXCEPT !.llm = @ + 1]
    /\ cli_pc' = "L137_second"
    /\ UNCHANGED <<cli_env, cli_files>>
    /\ UNCHANGED notCliVars

\* the other pool worker issues the remote call of the second generator
MainL137_second ==
    /\ cli_pc = "L137_second"
    /\ cli_remote' = [cli_remote EXCEPT !.llm = @ + 1]
    /\ cli_pc' = "L137"
    /\ UNCHANGED <<cli_env, cli, cli_files>>
    /\ UNCHANGED notCliVars

\* main() ends through its except clause (lines 152-156): sys.exit(1)
MainExits(locals, e) ==
    /\ cli' = [locals EXCEPT !.e = e, !.status = 1]
    /\ cli_pc' = "exited"

\* both generator calls have ended: execute_workflow raises the failure of a
\* generator, or issues the validator call
MainL137 ==
    /\ cli_pc = "L137"
    /\ \E responses \in [Agents -> AppLLMResponses], order \in Orders(Agents) :
         LET r == ExecuteWorkflow(Strip(MAIN_CONTEXT), StripExamples(cli.examples),
                                  MAIN_NUM_POSTS, responses, order, Ok(Plain))
         IN  IF r.validator_called
             THEN /\ cli' = [cli EXCEPT !.responses = responses]
                  /\ cli_pc' = "L137_validator"
                  /\ cli_remote' = [cli_remote EXCEPT !.llm = @ + 1]
             ELSE /\ MainExits(cli, r.outcome)
                  /\ UNCHANGED cli_remote
    /\ UNCHANGED <<cli_env, cli_files>>
    /\ UNCHANGED notCliVars

\* the validator call has ended: execute_workflow returns the report or
\* raises the validator's failure
MainL137_validator ==
    /\ cli_pc = "L137_validator"
    /\ \E validator_response \in AppLLMResponses :
         LET r == ExecuteWorkflow(Strip(MAIN_CONTEXT), StripExamples(cli.examples),
                                  MAIN_NUM_POSTS, cli.responses, <<"LinkedIn", "X">>,
                                  validator_response)
         IN  IF r.outcome.tag = "exc"
             THEN MainExits(cli, r.outcome)
             ELSE /\ cli' = [cli EXCEPT !.final_output = r.outcome.value]
                  /\ cli_pc' = "L144"
    /\ UNCHANGED <<cli_env, cli_remote, cli_files>>
    /\ UNCHANGED notCliVars

\* lines 144-150: the report is formatted, printed and written to output.txt;
\* main() returns, or the file system refuses and the except clause exits
MainL144 ==
    /\ cli_pc = "L144"
    /\ LET formatted == FormatOutput(cli.final_output)
           locals == [cli EXCEPT !.formatted_output = formatted]
       IN  \E outcome \in FileOutcomes :
             /\ cli_files' = IF outcome = "open failed" THEN cli_files
                             ELSE cli_files \cup {MainOutputFile}
             /\ IF outcome = "written"
                THEN /\ cli' = [locals EXCEPT !.status = 0]
                     /\ cli_pc' = "returned"
                ELSE MainExits(locals, Exc("OSError"))
    /\ UNCHANGED <<cli_env, cli_remote>>
    /\ UNCHANGED notCliVars

\* verify_setup.py lines 117-133: without a key, or with the placeholder,
\* test_openai_connection returns None; when an import fails it returns
\* False; otherwise it issues one text-generation call
VerifyL117 ==
    /\ cli_pc = "start"
    /\ cli_env.program = "verify_setup"
    /\ \E imported \in BOOLEAN :
         IF ~imported
         THEN /\ cli' = [cli EXCEPT !.result = PyBool(FALSE), !.e = Exc("ImportError")]
              /\ cli_pc' = "returned"
              /\ UNCHANGED cli_remote
         ELSE IF KeyMissing(cli_env.OPENAI_API_KEY, OPENAI_PLACEHOLDER)
         THEN /\ cli' = [cli EXCEPT !.result = NoneVal]
              /\ cli_pc' = "returned"
              /\ UNCHANGED cli_remote
         ELSE /\ cli_pc' = "L133"
              /\ cli_remote' = [cli_remote EXCEPT !.llm = @ + 1]
              /\ UNCHANGED cli
    /\ UNCHANGED <<cli_env, cli_files>>
    /\ UNCHANGED notCliVars

\* verify_setup.py lines 133-144: the call answers and True is returned, or
\* it fails and False is returned
VerifyL133 ==
    /\ cli_pc = "L133"
    /\ \E response \in AppLLMResponses :
         cli' = IF response.tag = "exc"
                THEN [cli EXCEPT !.result = PyBool(FALSE), !.e = response]
                ELSE [cli EXCEPT !.result = PyBool(TRUE)]
    /\ cli_pc' = "returned"
    /\ UNCHANGED <<cli_env, cli_remote, cli_files>>
    /\ UNCHANGED notCliVars

CliNext ==
    \/ MainL26
    \/ \E variant \in Agents : MainScrapeCall(variant)
    \/ \E variant \in Agents : MainScrapeActor(variant)
    \/ \E variant \in Agents : MainScrapeDataset(variant)
    \/ \E variant \in Agents : MainScrapeRaw(variant)
    \/ \E variant \in Agents : MainScrapeExamples(variant)
    \/ MainL120
    \/ MainL137_second
    \/ MainL137
    \/ MainL137_validator
    \/ MainL144
    \/ VerifyL117
    \/ VerifyL133

InitCli == CliInit /\ WfIdle /\ FmtIdle /\ FetchIdle /\ AppIdle

SpecCli == InitCli /\ [][CliNext]_vars

\* a key of the environment is missing or is its placeholder
CliBadCredential ==
    \/ KeyMissing(cli_env.OPENAI_API_KEY, OPENAI_PLACEHOLDER)
    \/ KeyMissing(cli_env.APIFY_API_TOKEN, APIFY_PLACEHOLDER)

\* C11 for the command-line run: with a missing or placeholder credential
\* main() exits with status 1 and issues no remote call
C11_BadCredentialEndsRun_Cli ==
    (cli_env.program = "main" /\ CliBadCredential) =>
        /\ cli_remote = [scrape |-> 0, llm |-> 0]
        /\ cli_pc \in {"start", "exited"}
        /\ (cli_pc = "exited") => cli.status = 1

\* the positions of main() at which a scraping call is made or is under way
\* (main.py lines 56-70 and 85-101)
MainScrapePcs ==
    {MainScrapePc(variant, stage) :
        variant \in Agents, stage \in {"call", "actor", "dataset", "raw", "examples"}}

\* a command-line run is under way or has ended
MainRuns == cli_pc # "idle" /\ cli_env.program = "main"

\* a command-line run that is scraping has no exception, and from line 120 on
\* it holds non-empty examples for both platforms, combined in the examples
\* it passes to the coordinator
C12_CliRunHoldsExamples ==
    MainRuns =>
        /\ (cli_pc \in MainScrapePcs) => cli.e = Unbound
        /\ (cli_pc \in {"L120", "L137_second", "L137", "L137_validator", "L144",
                        "returned"})
             => /\ NonEmptyExamples(cli.linkedin_examples)
                /\ NonEmptyExamples(cli.x_examples)
        /\ (cli_pc \in {"L137_second", "L137", "L137_validator"})
             => cli.examples = CombineExamples(cli.linkedin_examples, cli.x_examples)

\* no step main() takes while it scrapes, whatever fails in it, ends the
\* program or binds an exception
C12_CliScrapeStepGoesOn ==
    (MainRuns /\ cli_pc \in MainScrapePcs)
        => /\ cli_pc' \notin {"exited", "returned"}
           /\ cli'.e = Unbound

\* the runs of the program: a behaviour is of the web server, whose requests
\* start background runs, or of one command-line program
InitRuns == Init \/ InitCli

\* the steps of the web server and those of the command-line programs
NextRuns ==
    \/ Next
    \/ CliNext

SpecRuns == InitRuns /\ [][NextRuns]_vars

\* C12: in a run, web or command line, a failure of a scraping call does not
\* fail the run: no step of a scrape puts the run on its error path, the
\* literal example takes the place of the examples, and the run reaches the
\* generation phase with non-empty examples for both platforms
C12_ScrapeFailureFallsBack ==
    /\ [](C12_WebRunHoldsExamples /\ C12_CliRunHoldsExamples)
    /\ [][C12_WebScrapeStepGoesOn /\ C12_CliScrapeStepGoesOn]_vars

\* a command-line run whose two scraping calls failed has written output.txt
C12_Cli_BothScrapesFailed ==
    /\ MainRuns
    /\ cli_pc = "returned"
    /\ cli.linkedin_examples = Fallback("LinkedIn", "main")
    /\ cli.x_examples = Fallback("X", "main")
    /\ cli_files = {MainOutputFile}
    /\ cli_remote = [scrape |-> 2, llm |-> 3]

\* test_openai_connection issues one text-generation call when the key is
\* set and none otherwise
Verify_OneCallWithKey ==
    (cli_env.program = "verify_setup" /\ cli_pc = "returned") =>
        /\ cli_remote.scrape = 0
        /\ cli_remote.llm <= 1
        /\ (cli_remote.llm = 1) <=> (cli.result.tag = "bool" /\ cli.e # Exc("ImportError"))
        /\ KeyMissing(cli_env.OPENAI_API_KEY, OPENAI_PLACEHOLDER) => cli_remote.llm = 0
        /\ (cli.result = NoneVal) <=> /\ KeyMissing(cli_env.OPENAI_API_KEY, OPENAI_PLACEHOLDER)
                                      /\ cli.e = Unbound

\* test_openai_connection has issued its call and returned True
Verify_Connected ==
    /\ cli_env.program = "verify_setup"
    /\ cli_pc = "returned"
    /\ cli.result = PyBool(TRUE)
    /\ cli_remote = [scrape |-> 0, llm |-> 1]

\* a command-line run has read both datasets and written its five files
Main_FiveFiles ==
    /\ cli_env.program = "main"
    /\ cli_pc = "returned"
    /\ cli_remote = [scrape |-> 4, llm |-> 3]
    /\ cli_files = {RawFile("LinkedIn"), ExamplesFile("LinkedIn"), RawFile("X"),
                    ExamplesFile("X"), MainOutputFile}

====
